---- MODULE Spec2Model ----
(***************************************************************************)
(* The proposals contract of src/src/seeds.proposals.cpp as a state        *)
(* machine: the proposal store, the vote rows, the two voice ledgers, the  *)
(* delegation tables, the counters of the sizes table, the cycle singleton *)
(* and the cycle statistics.  Every handler is one atomic step: an eosio   *)
(* check() that fails aborts the transaction, so a rejected call changes   *)
(* nothing but err, the message of the check that failed.                  *)
(*                                                                         *)
(* Left out of the proposal row: title, summary, description,   *)
(* image, url, creation_date, the invite amounts and campaign_id; they are *)
(* only handed on to other contracts.  The minstake and votedprops tables  *)
(* are written and never read by the contract.  Messages that the code     *)
(* completes with a formatted number or account are cut before it.  The    *)
(* reset, test* and mig* maintenance handlers are not part of the machine. *)
(***************************************************************************)
EXTENDS Integers, Sequences, FiniteSets, TLC

(***************************************************************************)
(* Bounds of the model.                                                    *)
(***************************************************************************)
MaxProps == 1
MaxStaged == 2
MaxCycle == 1
MaxQuantityStep == 20
MaxTally == 14
MaxQuorumProps == 4
MaxBaseStep == 4

(***************************************************************************)
(* Names of seeds.proposals.hpp (the header is not part of src/).          *)
(***************************************************************************)
status_open == "open"
status_evaluate == "evaluate"
status_passed == "passed"
status_rejected == "rejected"
stage_staged == "staged"
stage_active == "active"
stage_done == "done"
trust == "trust"
distrust == "distrust"
abstain == "abstain"
alliance_type == "alliance"
campaign_type == "campaign"
milestone_type == "milestone"
campaign_invite_type == "cmp.invite"
campaign_funding_type == "cmp.funding"
self_scope == "funds.seeds"
prop_active_size == "prop.act.sz"
user_active_size == "user.act.sz"
cycle_vote_power_size == "votepow.sz"
voice_size == "voice.sz"
bank_milestone == "milestone.seeds"
bank_alliances == "alliances.seeds"
bank_campaigns == "campaigns.seeds"
bank_hypha == "hyphabank"

(***************************************************************************)
(* The settings the handlers read with config_get.                         *)
(***************************************************************************)
cfg_propminstake == 1
cfg_propmaxstake == 3
cfg_propstakeper == 5
cfg_prop_cmp_pct == 50000
cfg_prop_cmp_cap == 2
cfg_prop_cmp_min == 1
cfg_prop_al_pct == 10000
cfg_prop_al_cap == 3
cfg_prop_al_min == 1
cfg_propmajority == 50
cfg_quorum_base == 8
cfg_quor_min_pct == 4
cfg_quor_max_pct == 8
cfg_prop_cyc_qb == 2
cfg_inv_min_plnt == 2
cfg_inv_max_rwrd == 5
cfg_vdecayprntge == 50
cfg_decaytime == 2
cfg_propdecaysec == 2
cfg_batchsize == 2

(***************************************************************************)
(* Collaborators: the users table of the accounts contract and the         *)
(* contribution-score table of the harvest contract.                       *)
(***************************************************************************)
Users == [alice |-> "citizen", bob |-> "citizen", carol |-> "resident", dave |-> "visitor",
          frank |-> "citizen"]
Rank == [alice |-> 2, bob |-> 1, frank |-> 2]

\* the order of the account names as table keys (name.value)
AccountOrder == <<"alice", "bob", "carol", "dave", "erin", "frank">>
Key(a) == CHOOSE i \in DOMAIN AccountOrder : AccountOrder[i] = a
Accounts == DOMAIN Users \cup {"erin"}
ChainAccounts == Accounts \cup {bank_milestone, bank_alliances, bank_campaigns, bank_hypha}

is_account(a) == a \in ChainAccounts

(***************************************************************************)
(* uint64 values of a payout schedule.  <<hi, lo>> stands for              *)
(* hi * 2^63 + lo with lo < 2^31; hi may exceed 1 only in an exact sum.    *)
(* The sum the contract computes is the exact sum modulo 2^64.             *)
(***************************************************************************)
U(n) == <<0, n>>
Huge(n) == <<1, n>>

RECURSIVE ExactSum(_)
ExactSum(s) ==
  IF s = <<>> THEN U(0)
  ELSE LET r == ExactSum(Tail(s))
       IN <<Head(s)[1] + r[1], Head(s)[2] + r[2]>>

U64Sum(s) == LET e == ExactSum(s) IN <<e[1] % 2, e[2]>>

VARIABLES props, votes, voice, deltrusts, participants, actives, sizes,
          cycle, cyclestats, lastprops, err, assigned, sent, deferred, pool,
          call, ret

\* sent holds the inline actions and the deferred transactions the last
\* handler issued, in their order; deferred holds the deferred transactions
\* that are scheduled and have not run
\* pool holds the tables of the pool contract
\* call and ret hold the arguments and the value of one evaluation of a
\* function of the contract; the handlers leave them alone
fn == <<call, ret>>

state == <<props, votes, voice, deltrusts, participants, actives, sizes,
           cycle, cyclestats, lastprops>>
vars == <<props, votes, voice, deltrusts, participants, actives, sizes,
          cycle, cyclestats, lastprops, err, assigned, sent, deferred, pool,
          call, ret>>

Max(a, b) == IF a >= b THEN a ELSE b
Min(a, b) == IF a <= b THEN a ELSE b

SetMax(S) == CHOOSE x \in S : \A y \in S : y <= x

FirstError(checks) ==
  IF \E i \in DOMAIN checks : checks[i] # ""
    THEN checks[CHOOSE i \in DOMAIN checks :
                  checks[i] # "" /\ \A j \in DOMAIN checks : j < i => checks[j] = ""]
    ELSE ""

check(cond, msg) == IF cond THEN "" ELSE msg

Reject(msg) == /\ err' = msg
               /\ sent' = <<>>
               /\ UNCHANGED <<state, assigned>>

(***************************************************************************)
(* Init: the tables after deployment (or reset): all empty, no cycle       *)
(* singleton.                                                              *)
(***************************************************************************)
Tables ==
  /\ props = <<>>
  /\ votes = {}
  /\ voice = [s \in {self_scope, alliance_type} |-> <<>>]
  /\ deltrusts = [s \in {self_scope, alliance_type} |-> <<>>]
  /\ participants = <<>>
  /\ actives = {}
  /\ sizes = <<>>
  /\ cycle = [exists |-> FALSE, propcycle |-> 0, t_onperiod |-> 0, t_voicedecay |-> 0]
  /\ cyclestats = <<>>
  /\ lastprops = <<>>
  /\ err = ""
  /\ assigned = <<>>
  /\ sent = <<>>
  /\ deferred = {}
  /\ pool = [balances |-> <<>>, sizes |-> <<>>]

Init == Tables /\ call = <<>> /\ ret = <<>>

(***************************************************************************)
(* Percentages in double arithmetic.  The code scales an integer N by a    *)
(* percentage k as double(k) / 100.0 * double(N).  k / 100.0 is the double *)
(* nearest to k/100, and the product is rounded again, so it can fall just *)
(* below or just above k*N/100.  That matters only where k*N/100 is an     *)
(* integer: truncation then loses one, and a comparison with that integer  *)
(* turns.  ScaledBelow and ScaledAbove list those products for k <= 100    *)
(* and N <= 128, the range of the inputs used here.                        *)
(***************************************************************************)
ScaledBelow == { <<29, 100>>, <<57, 100>>, <<58, 50>>, <<58, 100>>, <<70, 90>> }

ScaledAbove ==
  { <<7, 100>>, <<14, 50>>, <<14, 100>>, <<28, 25>>, <<28, 50>>, <<28, 75>>,
    <<28, 100>>, <<55, 100>>, <<56, 25>>, <<56, 50>>, <<56, 75>>, <<56, 100>>,
    <<68, 75>> }

\* uint64_t(k / 100.0 * N)
TruncScaled(k, N) ==
  IF <<k, N>> \in ScaledBelow THEN (k * N) \div 100 - 1 ELSE (k * N) \div 100

\* double(x) >= double(N) * (k / 100.0)
AtLeastScaled(x, k, N) ==
  IF <<k, N>> \in ScaledAbove THEN x * 100 > k * N ELSE x * 100 >= k * N

(***************************************************************************)
(* Table helpers.                                                          *)
(***************************************************************************)
Put(f, k, v) == [x \in DOMAIN f \cup {k} |-> IF x = k THEN v ELSE f[x]]
Del(f, k) == [x \in DOMAIN f \ {k} |-> f[x]]

get_size(id) == IF id \in DOMAIN sizes THEN sizes[id] ELSE 0

size_change_err(S, id, delta) ==
  check(id \in DOMAIN S \/ delta >= 0, "can't add negagtive size")

size_change(S, id, delta) ==
  IF id \notin DOMAIN S THEN Put(S, id, delta)
  ELSE IF delta < 0 /\ S[id] < -delta THEN Put(S, id, 0)
  ELSE Put(S, id, S[id] + delta)

size_set(S, id, value) == Put(S, id, value)

(***************************************************************************)
(* Users.                                                                  *)
(***************************************************************************)
check_citizen(account) ==
  FirstError(<<check(account \in DOMAIN Users, "no user"),
               check(account \in DOMAIN Users /\ Users[account] = "citizen",
                     "user is not a citizen")>>)

check_resident(account) ==
  FirstError(<<check(account \in DOMAIN Users, "no user"),
               check(account \in DOMAIN Users /\ Users[account] \in {"citizen", "resident"},
                     "user is not a resident or citizen")>>)

check_asset(amount) == check(amount > 0, "invalid asset")

(***************************************************************************)
(* Inline actions.  Each operator is the sequence of actions the function  *)
(* of the same name sends.                                                 *)
(***************************************************************************)
contracts_bank == "contracts::bank"
contracts_escrow == "contracts::escrow"
contracts_onboarding == "contracts::onboarding"

Transfer(from, to, quantity) ==
  [action |-> "transfer", from |-> from, to |-> to, quantity |-> quantity]

deposit(quantity) == <<Transfer(self_scope, contracts_bank, quantity)>>

withdraw(beneficiary, quantity, sender) ==
  IF quantity = 0 THEN <<>> ELSE <<Transfer(sender, beneficiary, quantity)>>

refund_staked(beneficiary, quantity) == withdraw(beneficiary, quantity, contracts_bank)

change_rep(beneficiary) == <<[action |-> "addrep", account |-> beneficiary]>>

send_to_escrow(fromfund, recipient, quantity) ==
  << Transfer(fromfund, contracts_escrow, quantity),
     [action |-> "lock", from |-> fromfund, to |-> recipient, quantity |-> quantity] >>

burn(quantity) == <<[action |-> "burn", from |-> contracts_bank, quantity |-> quantity]>>

send_punish(account) == <<[action |-> "punish", account |-> account]>>

send_create_invite(owner, reward_owner, total_amount, proposal_id) ==
  <<[action |-> "createcampg", owner |-> owner, reward_owner |-> reward_owner,
     quantity |-> total_amount, proposal_id |-> proposal_id]>>

send_return_funds_campaign(proposal_id) ==
  <<[action |-> "returnfunds", proposal_id |-> proposal_id]>>

(***************************************************************************)
(* Stake policy.                                                           *)
(***************************************************************************)
cap_stake(fund) ==
  IF fund = bank_campaigns THEN cfg_prop_cmp_cap
  ELSE IF fund = bank_alliances THEN cfg_prop_al_cap
  ELSE cfg_propmaxstake

known_fund(fund) == fund \in {bank_campaigns, bank_alliances, bank_milestone}

\* prop_percentage is a double: pct1e4 stands for prop_percentage * 10000.
\* uint64_t(prop_percentage * amount / 100) is exact for the amounts used here.
min_stake(amount, fund) ==
  LET pct1e4 == IF fund = bank_campaigns THEN cfg_prop_cmp_pct
                ELSE IF fund = bank_alliances THEN cfg_prop_al_pct
                ELSE cfg_propstakeper * 10000
      prop_max == IF fund = bank_campaigns THEN cfg_prop_cmp_cap
                  ELSE IF fund = bank_alliances THEN cfg_prop_al_cap
                  ELSE cfg_propminstake
      prop_min == IF fund = bank_campaigns THEN cfg_prop_cmp_min
                  ELSE IF fund = bank_alliances THEN cfg_prop_al_min
                  ELSE cfg_propminstake
      quantity_prop_percentage == (pct1e4 * amount) \div 1000000
  IN Min(prop_max, Max(prop_min, quantity_prop_percentage))

is_enough_stake_strict(staked, amount, fund) == staked > min_stake(amount, fund)

is_enough_stake(staked, amount, fund) == staked >= min_stake(amount, fund)

get_type(fund) == IF fund = bank_alliances THEN alliance_type ELSE campaign_type

(***************************************************************************)
(* Payout schedules.                                                       *)
(***************************************************************************)
\* pay_percentages.size() - 1 in uint64: an empty schedule gives 2^64 - 1,
\* which passes "num_cycles >= 3" and fails "num_cycles <= 24".
check_percentages(pay) ==
  LET n == Len(pay)
  IN FirstError(<<
       check(n = 0 \/ n - 1 >= 3, "the number of cycles is to small"),
       check(n # 0 /\ n - 1 <= 24, "the number of cycles is to big"),
       check(U64Sum(pay) = U(100), "percentages must add up to 100"),
       check(n > 0 /\ pay[1][1] = 0 /\ pay[1][2] <= 25,
             "the initial payout must be smaller than 25%")>>)

InviteSchedule == <<U(100), U(0), U(0), U(0), U(0), U(0)>>

(***************************************************************************)
(* create, createx, createinvite                                           *)
(***************************************************************************)
LastId == IF DOMAIN props = {} THEN 0 ELSE SetMax(DOMAIN props)

NextPropId == LastId + 1

create_aux_err(creator, recipient, quantity, fund, ctype, pay) ==
  FirstError(<<
    check_resident(creator),
    IF ctype # campaign_invite_type THEN check_percentages(pay) ELSE "",
    check(get_type(fund) # "none", "Invalid fund"),
    IF fund = bank_milestone
      THEN check(recipient = bank_hypha, "Hypha proposals must go to hyphabank")
      ELSE FirstError(<<check(is_account(recipient), "recipient is not a valid account"),
                        check(is_account(fund), "fund is not a valid account")>>),
    check_asset(quantity),
    check(known_fund(fund), "unknown proposal type, invalid fund")>>)

NewProposal(id, creator, recipient, quantity, fund, ctype, pay) ==
  [ id |-> id, creator |-> creator, recipient |-> recipient, quantity |-> quantity, staked |-> 0,
    executed |-> FALSE, total |-> 0, favour |-> 0, against |-> 0,
    status |-> status_open, stage |-> stage_staged, fund |-> fund,
    pay_percentages |-> pay, passed_cycle |-> 0, age |-> 0,
    current_payout |-> 0, campaign_type |-> ctype ]

create_aux(creator, recipient, quantity, fund, ctype, pay) ==
  LET e == create_aux_err(creator, recipient, quantity, fund, ctype, pay)
  IN IF e # "" THEN Reject(e)
     ELSE /\ props' = Put(props, NextPropId,
                          NewProposal(NextPropId, creator, recipient, quantity, fund, ctype, pay))
          /\ lastprops' = Put(lastprops, creator, NextPropId)
          /\ assigned' = Append(assigned, NextPropId)
          /\ err' = ""
          /\ sent' = <<>>
          /\ UNCHANGED <<votes, voice, deltrusts, participants, actives, sizes,
                         cycle, cyclestats>>

createx(creator, recipient, quantity, fund, pay) ==
  LET type == IF fund = bank_alliances THEN alliance_type
              ELSE IF fund = bank_milestone THEN milestone_type
              ELSE campaign_funding_type
  IN create_aux(creator, recipient, quantity, fund, type, pay)

create(creator, recipient, quantity, fund) ==
  createx(creator, recipient, quantity, fund, <<U(25), U(25), U(25), U(25)>>)

createinvite(creator, recipient, quantity, fund, max_amount_per_invite, planted, reward) ==
  LET e == FirstError(<<
        check(fund = bank_campaigns, "the bank must be campaigns.seeds for invite campaign proposals"),
        check_asset(max_amount_per_invite),
        check_asset(planted),
        check_asset(reward),
        check(planted >= cfg_inv_min_plnt, "the planted amount must be greater or equal than min"),
        check(reward <= cfg_inv_max_rwrd, "the reward can not be greater than max")>>)
  IN IF e # "" THEN Reject(e)
     ELSE create_aux(creator, recipient, quantity, fund, campaign_invite_type, InviteSchedule)

(***************************************************************************)
(* update, updatex                                                         *)
(***************************************************************************)
updatex_err(id, pay) ==
  FirstError(<<
    check(id \in DOMAIN props, "Proposal not found"),
    check(id \in DOMAIN props /\ props[id].favour = 0, "Prop has favor votes - cannot alter proposal once voting has started"),
    check(id \in DOMAIN props /\ props[id].against = 0, "Prop has against votes - cannot alter proposal once voting has started"),
    IF id \in DOMAIN props
      THEN check_percentages(IF props[id].campaign_type = campaign_invite_type
                               THEN InviteSchedule ELSE pay)
      ELSE "">>)

updatex(id, pay) ==
  LET e == updatex_err(id, pay)
  IN IF e # "" THEN Reject(e)
     ELSE /\ props' = [props EXCEPT ![id].pay_percentages =
                         IF props[id].campaign_type = campaign_invite_type
                           THEN InviteSchedule ELSE pay]
          /\ err' = ""
          /\ sent' = <<>>
          /\ UNCHANGED <<votes, voice, deltrusts, participants, actives, sizes,
                         cycle, cyclestats, lastprops, assigned>>

update(id) ==
  IF id \notin DOMAIN props THEN Reject("Proposal not found")
  ELSE updatex(id, props[id].pay_percentages)

(***************************************************************************)
(* cancel                                                                  *)
(***************************************************************************)
cancel_err(id) ==
  FirstError(<<
    check(id \in DOMAIN props, "Proposal not found"),
    check(id \in DOMAIN props /\ props[id].status = status_open,
          "Proposal state is not open, it can no longer be cancelled")>>)

cancel(id) ==
  LET e == cancel_err(id)
  IN IF e # "" THEN Reject(e)
     ELSE /\ props' = Del(props, id)
          /\ err' = ""
          /\ sent' = refund_staked(props[id].creator, props[id].staked)
          /\ UNCHANGED <<votes, voice, deltrusts, participants, actives, sizes,
                         cycle, cyclestats, lastprops, assigned>>

(***************************************************************************)
(* stake: the transfer notification.  memo_id = 0 stands for an empty      *)
(* memo, which selects the sender's last proposal.                         *)
(***************************************************************************)
stake_target(from, memo_id) ==
  IF memo_id = 0 THEN (IF from \in DOMAIN lastprops THEN lastprops[from] ELSE 0)
  ELSE memo_id

stake_cap_check_ignores_deposit(staked, quantity, fund) ==
  check(staked <= cap_stake(fund), "The staked value can not be greater than cap")

stake_cap_check(staked, quantity, fund) ==
  check(staked + quantity <= cap_stake(fund), "The staked value can not be greater than cap")

stake_err(from, quantity, memo_id) ==
  FirstError(<<
    check_asset(quantity),
    check(memo_id # 0 \/ from \in DOMAIN lastprops, "no proposals"),
    check(stake_target(from, memo_id) \in DOMAIN props, "no proposal"),
    IF stake_target(from, memo_id) \in DOMAIN props
      THEN LET p == props[stake_target(from, memo_id)]
           IN stake_cap_check(p.staked, quantity, p.fund)
      ELSE "">>)

stake(from, quantity, memo_id) ==
  LET e == stake_err(from, quantity, memo_id)
      id == stake_target(from, memo_id)
  IN IF e # "" THEN Reject(e)
     ELSE /\ props' = [props EXCEPT ![id].staked = @ + quantity]
          /\ err' = ""
          /\ sent' = deposit(quantity)
          /\ UNCHANGED <<votes, voice, deltrusts, participants, actives, sizes,
                         cycle, cyclestats, lastprops, assigned>>

(***************************************************************************)
(* Voice ledgers: voice[scope][account] is the balance of the row.         *)
(***************************************************************************)
check_voice_scope(scope) ==
  check(scope \in {self_scope, alliance_type}, "invalid scope for voice")

voice_scope(fund) == IF get_type(fund) = alliance_type THEN alliance_type ELSE self_scope

voice_balance_check_skipped(amount, balance) == ""

voice_balance_check(amount, balance) == check(amount <= balance, "voice balance exceeded")

\* voice_change(user, amount, true, scope) with scope # ""
voice_reduce_err(user, amount, scope) ==
  FirstError(<<
    check_voice_scope(scope),
    check(scope \in DOMAIN voice /\ user \in DOMAIN voice[scope], "user does not have voice"),
    IF scope \in DOMAIN voice /\ user \in DOMAIN voice[scope]
      THEN voice_balance_check(amount, voice[scope][user]) ELSE "">>)

voice_reduce(user, amount, scope) ==
  [voice EXCEPT ![scope] = Put(@, user, @[user] - amount)]

\* set_voice(user, amount, ""_n)
set_voice(user, amount) ==
  [s \in DOMAIN voice |-> Put(voice[s], user, amount)]

RECURSIVE Pow(_, _)
Pow(b, n) == IF n = 0 THEN 1 ELSE b * Pow(b, n - 1)

\* uint64_t(voice * pow(1.0 - (decay_percentage / 100.0), n)).  The double
\* 1.0 - 0.9 lies below 1/10, so the product can fall just below an integer
\* and truncation then loses one.  DecayBelow lists those products for the
\* voices 0, 1, 2, 10, 1000, the percentages 0, 10, 50, 90, 100 and n <= 5.
DecayBelow == { <<10, 90, 1>>, <<1000, 90, 1>>, <<1000, 90, 2>>, <<1000, 90, 3>> }

decayed(v, decay_percentage, n) ==
  IF <<v, decay_percentage, n>> \in DecayBelow
    THEN (v * Pow(100 - decay_percentage, n)) \div Pow(100, n) - 1
    ELSE (v * Pow(100 - decay_percentage, n)) \div Pow(100, n)

\* calculate_decay reading decay_percentage for the setting vdecayprntge (at
\* most 100) and the two times of the cycle singleton
calculate_decay_of(v, decay_percentage, t_onperiod, t_voicedecay) ==
  LET temp == t_onperiod + cfg_decaytime
      n == ((t_voicedecay - temp) \div cfg_propdecaysec) + 1
  IN IF temp >= t_voicedecay THEN v ELSE decayed(v, decay_percentage, n)

calculate_decay(v) ==
  calculate_decay_of(v, cfg_vdecayprntge, cycle.t_onperiod, cycle.t_voicedecay)

(***************************************************************************)
(* addactive -> recover_voice                                              *)
(***************************************************************************)
addactive(account) ==
  IF account \in actives
    THEN /\ err' = ""
         /\ sent' = <<>>
         /\ UNCHANGED <<state, assigned>>
    ELSE LET voice_amount == IF account \in DOMAIN Rank THEN calculate_decay(Rank[account]) ELSE 0
             s1 == size_change(sizes, user_active_size, 1)
             s2 == IF account \in DOMAIN voice[self_scope] THEN s1
                   ELSE size_change(s1, voice_size, 1)
         IN /\ actives' = actives \cup {account}
            /\ voice' = set_voice(account, voice_amount)
            /\ sizes' = size_change(s2, cycle_vote_power_size, voice_amount)
            /\ cycle' = IF account \in DOMAIN Rank THEN [cycle EXCEPT !.exists = TRUE] ELSE cycle
            /\ err' = ""
            /\ sent' = <<>>
            /\ UNCHANGED <<props, votes, deltrusts, participants, cyclestats,
                           lastprops, assigned>>

(***************************************************************************)
(* Delegation: deltrusts[scope][delegator] is the delegatee.               *)
(***************************************************************************)
cfg_dlegate_dpth == 2

is_trust_delegated_in_self_scope(account, scope) == account \in DOMAIN deltrusts[self_scope]

is_trust_delegated(account, scope) == account \in DOMAIN deltrusts[scope]

RECURSIVE has_no_cycles(_, _, _, _)
has_no_cycles(D, delegator, current, i) ==
  IF i >= cfg_dlegate_dpth THEN FALSE
  ELSE IF current \in DOMAIN D
    THEN (IF D[current] = delegator THEN FALSE
          ELSE has_no_cycles(D, delegator, D[current], i + 1))
    ELSE TRUE

delegate_err(delegator, delegatee, scope) ==
  FirstError(<<
    check_voice_scope(scope),
    check(scope \in DOMAIN voice /\ delegator \in DOMAIN voice[scope],
          "delegatee does not have voice"),
    check(scope \in DOMAIN deltrusts /\ has_no_cycles(deltrusts[scope], delegator, delegatee, 0),
          "can not add delegatee, cycles are not allowed")>>)

delegate(delegator, delegatee, scope) ==
  LET e == delegate_err(delegator, delegatee, scope)
  IN IF e # "" THEN Reject(e)
     ELSE /\ deltrusts' = [deltrusts EXCEPT ![scope] = Put(@, delegator, delegatee)]
          /\ err' = ""
          /\ sent' = <<>>
          /\ UNCHANGED <<props, votes, voice, participants, actives, sizes,
                         cycle, cyclestats, lastprops, assigned>>

undelegate_err(delegator, scope) ==
  FirstError(<<
    check_voice_scope(scope),
    check(scope \in DOMAIN deltrusts /\ delegator \in DOMAIN deltrusts[scope],
          "delegator not found")>>)

\* undelegate accepting the call and keeping the edge
undelegate_keeps_edge(delegator, scope) ==
  LET e == undelegate_err(delegator, scope)
  IN IF e # "" THEN Reject(e)
     ELSE /\ err' = ""
          /\ sent' = <<>>
          /\ UNCHANGED <<state, assigned>>

undelegate(delegator, scope) ==
  LET e == undelegate_err(delegator, scope)
  IN IF e # "" THEN Reject(e)
     ELSE /\ deltrusts' = [deltrusts EXCEPT ![scope] = Del(@, delegator)]
          /\ err' = ""
          /\ sent' = <<>>
          /\ UNCHANGED <<props, votes, voice, participants, actives, sizes,
                         cycle, cyclestats, lastprops, assigned>>

(***************************************************************************)
(* Votes: one row per emplace, [proposal_id, account, amount, favour].     *)
(* An abstain row leaves favour unset; with amount 0 no handler reads it.  *)
(***************************************************************************)
VoteRows(V, id, voter) == {r \in V : r.proposal_id = id /\ r.account = voter}

one_vote_check_skipped(V, id, voter) == ""

one_vote_check(V, id, voter) == check(VoteRows(V, id, voter) = {}, "only one vote")

revert_state_check_any_status(status) == ""

revert_state_check(status) ==
  check(status = status_evaluate, "Proposal is not in evaluate state")

\* revert_vote: the message of the failing check, "" when it returns
revert_vote_err(voter, id) ==
  FirstError(<<
    check(id \in DOMAIN props, "Proposal not found"),
    IF id \in DOMAIN props /\ VoteRows(votes, id, voter) # {}
      THEN LET r == CHOOSE r \in VoteRows(votes, id, voter) : TRUE
           IN FirstError(<<
                revert_state_check(props[id].status),
                check(r.favour = TRUE /\ r.amount > 0, "Only trust votes can be changed")>>)
      ELSE "">>)

\* the value revert_vote returns
vote_reverted(voter, id) == id \in DOMAIN props /\ VoteRows(votes, id, voter) # {}

revert_props(voter, id) ==
  IF vote_reverted(voter, id)
    THEN LET r == CHOOSE r \in VoteRows(votes, id, voter) : TRUE
         IN [props EXCEPT ![id].total = @ - r.amount, ![id].favour = @ - r.amount]
    ELSE props

revert_votes(voter, id) ==
  IF vote_reverted(voter, id)
    THEN votes \ {CHOOSE r \in VoteRows(votes, id, voter) : TRUE}
    ELSE votes

evaluate_state_msg(voter) ==
  "the user " \o voter \o
  " can not vote for this proposal, as the proposal is in evaluate state"

vote_state_check_any_stage(p, voter, is_new) ==
  FirstError(<<
    check(p.executed = FALSE, "Proposal was already executed"),
    check(is_new => p.status = status_open, evaluate_state_msg(voter))>>)

vote_state_check_any_status(p, voter, is_new) ==
  FirstError(<<
    check(p.executed = FALSE, "Proposal was already executed"),
    check(p.stage = stage_active, "not active stage")>>)

vote_state_check(p, voter, is_new) ==
  FirstError(<<
    check(p.executed = FALSE, "Proposal was already executed"),
    check(p.stage = stage_active, "not active stage"),
    check(is_new => p.status = status_open, evaluate_state_msg(voter))>>)

vote_aux_err(P, V, voter, id, amount, option, is_new, is_delegated) ==
  FirstError(<<
    check_citizen(voter),
    check(id \in DOMAIN P, "Proposal not found"),
    IF id \in DOMAIN P THEN vote_state_check(P[id], voter, is_new) ELSE "",
    one_vote_check(V, id, voter),
    check(option \in {trust, distrust, abstain}, "Invalid option"),
    IF id \in DOMAIN P THEN voice_reduce_err(voter, amount, voice_scope(P[id].fund)) ELSE "",
    IF id \in DOMAIN P /\ ~is_delegated
      THEN check(~is_trust_delegated(voter, voice_scope(P[id].fund)),
                 "voice is delegated, user can not vote by itself")
      ELSE "",
    check(cycle.exists, "singleton does not exist")>>)

increase_voice_cast(amount, option) ==
  IF cycle.propcycle \in DOMAIN cyclestats
    THEN [cyclestats EXCEPT ![cycle.propcycle] =
            [@ EXCEPT !.total_voice_cast = @ + amount,
                      !.total_favour = IF option = trust THEN @ + amount ELSE @,
                      !.total_against = IF option = distrust THEN @ + amount ELSE @,
                      !.num_votes = @ + 1]]
    ELSE cyclestats

vote_tally(P, id, amount, option) ==
  IF option = trust
    THEN [P EXCEPT ![id].total = @ + amount, ![id].favour = @ + amount]
  ELSE IF option = distrust
    THEN [P EXCEPT ![id].total = @ + amount, ![id].against = @ + amount]
  ELSE P

vote_participants(voter, option, is_new) ==
  IF ~is_new THEN participants
  ELSE IF voter \notin DOMAIN participants
    THEN Put(participants, voter, [count |-> 1, nonneutral |-> (option # abstain)])
  ELSE Put(participants, voter,
           [count |-> participants[voter].count + 1,
            nonneutral |-> (participants[voter].nonneutral \/ option # abstain)])

\* a deferred transaction as it is sent: one action with its arguments
Deferred(sender_id, tx) == [action |-> "deferred", sender_id |-> sender_id, tx |-> tx]

\* the accounts of a set in the order of their keys
RECURSIVE SortedAccounts(_)
SortedAccounts(S) ==
  IF S = {} THEN <<>>
  ELSE LET a == CHOOSE x \in S : \A y \in S : Key(x) <= Key(y)
       IN <<a>> \o SortedAccounts(S \ {a})

\* the rows of the byddelegator index for a delegatee, from a delegator on
DelegatorsOf(scope, delegatee) ==
  {d \in DOMAIN deltrusts[scope] : deltrusts[scope][d] = delegatee}

DelegatorsFrom(scope, delegatee, delegator) ==
  SortedAccounts({d \in DelegatorsOf(scope, delegatee) : Key(d) >= Key(delegator)})

\* percentage_used = amount / double(balance), kept as the pair
\* <<amount, balance>>; for balances below 40 the truncated double product
\* balance * percentage_used is the exact floor but for MimicBelow
MimicBelow == { <<22, <<15, 22>>>>, <<23, <<13, 23>>>>, <<26, <<15, 26>>>>, <<39, <<31, 39>>>> }

MimicAmount(balance, percentage_used) ==
  IF percentage_used[2] = 0 THEN 0
  ELSE IF <<balance, percentage_used>> \in MimicBelow
    THEN (balance * percentage_used[1]) \div percentage_used[2] - 1
  ELSE (balance * percentage_used[1]) \div percentage_used[2]

mimicvote_tx(delegatee, delegator, scope, proposal_id, percentage_used, option, chunksize) ==
  [name |-> "mimicvote", delegatee |-> delegatee, delegator |-> delegator, scope |-> scope,
   proposal_id |-> proposal_id, percentage_used |-> percentage_used, option |-> option,
   chunksize |-> chunksize]

send_vote_on_behalf(voter, id, amount, option) ==
  <<Deferred(<<voter, 0>>,
             [name |-> "voteonbehalf", voter |-> voter, id |-> id, amount |-> amount,
              option |-> option])>>

send_mimic_delegatee_vote(delegatee, scope, proposal_id, percentage_used, option) ==
  LET ds == DelegatorsFrom(scope, delegatee, AccountOrder[1])
  IN IF ds = <<>> THEN <<>>
     ELSE <<Deferred(<<delegatee, 1>>,
                     mimicvote_tx(delegatee, ds[1], scope, proposal_id, percentage_used,
                                  option, cfg_batchsize))>>

\* the reputation of a first vote in the cycle
vote_rep(voter, is_new) ==
  IF is_new /\ voter \notin DOMAIN participants
    THEN <<[action |-> "addrep", account |-> voter]>> ELSE <<>>

\* vote_aux on the tables P, V left by revert_vote
vote_aux(P, V, voter, id, amount, option, is_new, is_delegated) ==
  LET e == vote_aux_err(P, V, voter, id, amount, option, is_new, is_delegated)
  IN IF e # "" THEN Reject(e)
     ELSE /\ props' = vote_tally(P, id, amount, option)
          /\ voice' = voice_reduce(voter, amount, voice_scope(P[id].fund))
          /\ votes' = V \cup {[proposal_id |-> id, account |-> voter, amount |-> amount,
                               favour |-> (option = trust)]}
          /\ participants' = vote_participants(voter, option, is_new)
          /\ actives' = actives \cup {voter}
          /\ sizes' = IF voter \in actives THEN sizes
                      ELSE size_change(sizes, user_active_size, 1)
          /\ cyclestats' = increase_voice_cast(amount, option)
          /\ err' = ""
          /\ sent' = send_mimic_delegatee_vote(
                        voter, voice_scope(P[id].fund), id,
                        <<amount, voice[voice_scope(P[id].fund)][voter]>>, option)
                      \o vote_rep(voter, is_new)
          /\ UNCHANGED <<deltrusts, cycle, lastprops, assigned>>

favour(voter, id, amount) ==
  vote_aux(props, votes, voter, id, amount, trust, TRUE, FALSE)

neutral(voter, id) ==
  vote_aux(props, votes, voter, id, 0, abstain, TRUE, FALSE)

\* against with the reversal committed although vote_aux fails
against_keeps_reversal(voter, id, amount) ==
  LET e == revert_vote_err(voter, id)
      f == vote_aux_err(revert_props(voter, id), revert_votes(voter, id), voter, id,
                        amount, distrust, ~vote_reverted(voter, id), FALSE)
  IN IF e # "" THEN Reject(e)
     ELSE IF f # ""
       THEN /\ props' = revert_props(voter, id)
            /\ votes' = revert_votes(voter, id)
            /\ err' = f
            /\ sent' = <<>>
            /\ UNCHANGED <<voice, deltrusts, participants, actives, sizes, cycle,
                           cyclestats, lastprops, assigned>>
     ELSE vote_aux(revert_props(voter, id), revert_votes(voter, id), voter, id, amount,
                   distrust, ~vote_reverted(voter, id), FALSE)

against(voter, id, amount) ==
  LET e == revert_vote_err(voter, id)
  IN IF e # "" THEN Reject(e)
     ELSE vote_aux(revert_props(voter, id), revert_votes(voter, id), voter, id, amount,
                   distrust, ~vote_reverted(voter, id), FALSE)

voteonbehalf(voter, id, amount, option) ==
  IF option = distrust
    THEN LET e == revert_vote_err(voter, id)
         IN IF e # "" THEN Reject(e)
            ELSE vote_aux(revert_props(voter, id), revert_votes(voter, id), voter, id,
                          amount, option, ~vote_reverted(voter, id), TRUE)
    ELSE vote_aux(props, votes, voter, id, amount, option, TRUE, TRUE)

(***************************************************************************)
(* mimicvote: one chunk of the votes on behalf of the delegators of a      *)
(* delegatee.  The balance of a delegator without a voice row is read      *)
(* through the end iterator: any value of UndefinedBalances.               *)
(***************************************************************************)
UndefinedBalances == {0, 1}

Take(seq, n) == SubSeq(seq, 1, Min(n, Len(seq)))
Drop(seq, n) == SubSeq(seq, Min(n, Len(seq)) + 1, Len(seq))

RECURSIVE Concat(_)
Concat(ss) == IF ss = <<>> THEN <<>> ELSE Head(ss) \o Concat(Tail(ss))

mimicvote_err(scope) == check_voice_scope(scope)

mimic_amount(voter, scope, percentage_used, option, undefined) ==
  IF option = abstain THEN 0
  ELSE MimicAmount(IF voter \in DOMAIN voice[scope] THEN voice[scope][voter] ELSE undefined,
                   percentage_used)

mimicvote_sent(delegatee, delegator, scope, proposal_id, percentage_used, option, chunksize, undefined) ==
  LET ds == IF delegator \in DelegatorsOf(scope, delegatee)
              THEN DelegatorsFrom(scope, delegatee, delegator) ELSE <<>>
      chunk == Take(ds, chunksize)
      rest == Drop(ds, chunksize)
  IN Concat([i \in DOMAIN chunk |->
               IF option \in {trust, distrust, abstain}
                 THEN send_vote_on_behalf(
                        chunk[i], proposal_id,
                        mimic_amount(chunk[i], scope, percentage_used, option, undefined),
                        option)
                 ELSE <<>>])
     \o (IF rest = <<>> THEN <<>>
         ELSE <<Deferred(<<delegatee, 1>>,
                         mimicvote_tx(delegatee, rest[1], scope, proposal_id,
                                      percentage_used, option, chunksize))>>)

mimicvote(delegatee, delegator, scope, proposal_id, percentage_used, option, chunksize) ==
  LET e == mimicvote_err(scope)
  IN IF e # "" THEN Reject(e)
     ELSE /\ \E undefined \in UndefinedBalances :
               sent' = mimicvote_sent(delegatee, delegator, scope, proposal_id,
                                      percentage_used, option, chunksize, undefined)
          /\ err' = ""
          /\ UNCHANGED <<state, assigned>>

(***************************************************************************)
(* Quorum and cycle statistics.                                            *)
(***************************************************************************)
\* get_quorum with the three settings it reads as arguments
quorum_of(base_quorum, quorum_min, quorum_max, total_proposals) ==
  LET quorum == IF total_proposals # 0 THEN base_quorum \div total_proposals ELSE 0
  IN Min(quorum_max, Max(quorum_min, quorum))

get_quorum(total_proposals) ==
  quorum_of(cfg_quorum_base, cfg_quor_min_pct, cfg_quor_max_pct, total_proposals)

\* uint64_t(quorum_vote_base * (get_quorum(n) / 100.0))
votes_needed(quorum_vote_base, num_proposals) ==
  TruncScaled(get_quorum(num_proposals), quorum_vote_base)

RECURSIVE sum_voice_cast(_, _, _)
sum_voice_cast(CS, c, count) ==
  IF count = 0 \/ c \notin DOMAIN CS THEN [total |-> 0, count |-> 0]
  ELSE LET below == {k \in DOMAIN CS : k < c}
           rest == IF below = {} THEN [total |-> 0, count |-> 0]
                   ELSE sum_voice_cast(CS, SetMax(below), count - 1)
       IN [total |-> CS[c].total_voice_cast + rest.total, count |-> 1 + rest.count]

calc_quorum_base(propcycle) ==
  IF propcycle \notin DOMAIN cyclestats
    THEN (get_size(user_active_size) * 50) \div 2
    ELSE LET r == sum_voice_cast(cyclestats, propcycle, cfg_prop_cyc_qb)
         IN IF r.count > 0 THEN r.total \div r.count ELSE 0

\* update_cycle_stats_from_proposal: cycle.get() and the modify of the current
\* cycle's row both abort when the singleton or the row is missing.
update_cycle_stats_err ==
  FirstError(<<check(cycle.exists, "singleton does not exist"),
               check(cycle.propcycle \in DOMAIN cyclestats, "cannot pass end iterator to modify")>>)

update_cycle_stats_from_proposal(CS, array) ==
  IF array = stage_active
    THEN [CS EXCEPT ![cycle.propcycle] =
            [@ EXCEPT !.num_proposals = @ + 1,
                      !.quorum_votes_needed =
                         votes_needed(CS[cycle.propcycle].quorum_vote_base,
                                      CS[cycle.propcycle].num_proposals + 1)]]
    ELSE CS

init_cycle_new_stats(CS, c) ==
  Put(CS, c,
      [ num_proposals |-> 0, num_votes |-> 0, total_voice_cast |-> 0,
        total_favour |-> 0, total_against |-> 0,
        total_citizens |-> get_size(voice_size),
        quorum_vote_base |-> calc_quorum_base(c - 1),
        quorum_votes_needed |-> votes_needed(calc_quorum_base(c - 1), 0),
        total_eligible_voters |-> 0 ])

(***************************************************************************)
(* onperiod: records the eligible voters of the closing cycle, schedules   *)
(* the evaluation of the staged and the active proposals, advances the     *)
(* cycle, opens the statistics row of the new one and schedules the voice  *)
(* refresh and the sweep of the participants.  A sender id <<name, n>>     *)
(* stands for name.value + n, the empty name for 0.                        *)
(***************************************************************************)
\* the ids of a set in ascending order
RECURSIVE SortedIds(_)
SortedIds(S) ==
  IF S = {} THEN <<>>
  ELSE LET i == CHOOSE x \in S : \A y \in S : x <= y
       IN <<i>> \o SortedIds(S \ {i})

\* the rows of the bystage index for a stage
ByStage(stage) == SortedIds({id \in DOMAIN props : props[id].stage = stage})

send_eval_prop(proposal_id, prop_cycle) ==
  Deferred(<<"", proposal_id>>,
           [name |-> "evalproposal", proposal_id |-> proposal_id, prop_cycle |-> prop_cycle])

send_update_voices(now) ==
  Deferred(<<self_scope, now>>, [name |-> "updatevoice", start |-> 0])

send_erase_participants(active_proposals, now) ==
  Deferred(<<"", now>>, [name |-> "erasepartpts", active_proposals |-> active_proposals])

\* a tick that also schedules the proposals that are done
onperiod_sent_done_too(now) ==
  [i \in DOMAIN SortedIds(DOMAIN props) |->
     send_eval_prop(SortedIds(DOMAIN props)[i], cycle.propcycle)]
  \o <<send_update_voices(now), send_erase_participants(get_size(prop_active_size), now)>>

onperiod_sent(now) ==
  [i \in DOMAIN ByStage(stage_staged) |->
     send_eval_prop(ByStage(stage_staged)[i], cycle.propcycle)]
  \o [i \in DOMAIN ByStage(stage_active) |->
        send_eval_prop(ByStage(stage_active)[i], cycle.propcycle)]
  \o <<send_update_voices(now), send_erase_participants(get_size(prop_active_size), now)>>

\* transaction::send with a sender id that is still scheduled
onperiod_err(now) ==
  check(\A i \in DOMAIN onperiod_sent(now) :
          \A d \in deferred : d.sender_id # onperiod_sent(now)[i].sender_id,
        "deferred transaction with the same sender_id and payer already exists")

\* onperiod at the time now
onperiod_tick(now) ==
  IF onperiod_err(now) # "" THEN Reject(onperiod_err(now))
  ELSE LET c == cycle.propcycle
           cs1 == IF c \in DOMAIN cyclestats
                    THEN [cyclestats EXCEPT ![c].total_eligible_voters =
                                              get_size(user_active_size)]
                    ELSE cyclestats
       IN /\ cycle' = [cycle EXCEPT !.exists = TRUE, !.propcycle = c + 1, !.t_onperiod = now]
          /\ cyclestats' = init_cycle_new_stats(cs1, c + 1)
          /\ err' = ""
          /\ sent' = onperiod_sent(now)
          /\ UNCHANGED <<props, votes, voice, deltrusts, participants, actives,
                         sizes, lastprops, assigned>>

onperiod_at(now) == cycle.propcycle < MaxCycle /\ onperiod_tick(now)

\* where no clock runs, every step is in the second of the last tick
onperiod == onperiod_at(cycle.t_onperiod)

(***************************************************************************)
(* erasepartpts: the sweep of the participants of the closed cycle.        *)
(***************************************************************************)
erasepartpts_sent(active_proposals, now) ==
  LET rows == Take(SortedAccounts(DOMAIN participants), cfg_batchsize)
  IN Concat([i \in DOMAIN rows |->
               IF participants[rows[i]].count = active_proposals
                  /\ participants[rows[i]].nonneutral
                 THEN <<[action |-> "addrep", account |-> rows[i]]>> ELSE <<>>])
     \o (IF Len(rows) = cfg_batchsize
          THEN <<send_erase_participants(active_proposals, now)>> ELSE <<>>)

erasepartpts_at(active_proposals, now) ==
  LET rows == Take(SortedAccounts(DOMAIN participants), cfg_batchsize)
  IN /\ participants' = [a \in DOMAIN participants \ {rows[i] : i \in DOMAIN rows} |->
                          participants[a]]
     /\ err' = ""
     /\ sent' = erasepartpts_sent(active_proposals, now)
     /\ UNCHANGED <<props, votes, voice, deltrusts, actives, sizes, cycle, cyclestats,
                    lastprops, assigned>>

erasepartpts(active_proposals) == erasepartpts_at(active_proposals, cycle.t_onperiod)

(***************************************************************************)
(* evalproposal                                                            *)
(***************************************************************************)
PctValue(p) == p[2]

get_payout_amount(pay, age, total_amount, current_payout) ==
  IF age >= Len(pay) THEN 0
  ELSE IF age = Len(pay) - 1 THEN total_amount - current_payout
  ELSE TruncScaled(PctValue(pay[age + 1]), total_amount)

\* passed = favour > 0 && fav >= double(favour + against) * majority
passed(favour_votes, against_votes, prop_majority) ==
  /\ favour_votes > 0
  /\ AtLeastScaled(favour_votes, prop_majority, favour_votes + against_votes)

eval_passed(p) == passed(p.favour, p.against, cfg_propmajority)

eval_valid_quorum(p, quorum_votes_needed) ==
  IF p.status = status_evaluate THEN TRUE ELSE p.favour >= quorum_votes_needed

eval_eligible_voters(prop_cycle) ==
  IF prop_cycle \in DOMAIN cyclestats THEN cyclestats[prop_cycle].total_eligible_voters
  ELSE get_size(user_active_size)

eval_votes_needed(prop_cycle) ==
  IF prop_cycle \in DOMAIN cyclestats THEN cyclestats[prop_cycle].quorum_votes_needed ELSE 0

eval_passes(p, prop_cycle) ==
  eval_passed(p) /\ eval_valid_quorum(p, eval_votes_needed(prop_cycle))

promotes(p) == p.stage = stage_staged /\ is_enough_stake(p.staked, p.quantity, p.fund)

evalproposal_err(proposal_id, prop_cycle) ==
  FirstError(<<
    check(eval_eligible_voters(prop_cycle) > 0,
          "no eligible voters - likely an error; can't run proposals."),
    IF proposal_id \notin DOMAIN props THEN ""
    ELSE LET p == props[proposal_id]
         IN IF p.stage = stage_active
              THEN FirstError(<<
                     IF eval_passes(p, prop_cycle)
                       THEN (IF p.status = status_open
                                \/ p.age + 1 # Len(p.pay_percentages) - 1
                               THEN update_cycle_stats_err ELSE "")
                       ELSE (IF p.status # status_evaluate THEN check_asset(p.staked) ELSE ""),
                     size_change_err(sizes, prop_active_size, -1)>>)
            ELSE IF promotes(p) THEN update_cycle_stats_err
            ELSE "">>)

\* the first payout with the stake left on the proposal
eval_pass_open_keeps_stake(p, prop_cycle) ==
  [p EXCEPT !.passed_cycle = prop_cycle,
            !.age = 0,
            !.status = status_evaluate,
            !.current_payout = @ + get_payout_amount(p.pay_percentages, 0, p.quantity,
                                                     p.current_payout)]

eval_pass_open(p, prop_cycle) ==
  [p EXCEPT !.passed_cycle = prop_cycle,
            !.age = 0,
            !.staked = 0,
            !.status = status_evaluate,
            !.current_payout = @ + get_payout_amount(p.pay_percentages, 0, p.quantity,
                                                     p.current_payout)]

\* the last payout without the executed flag
eval_pass_evaluate_unexecuted(p) ==
  LET age == p.age + 1
      done == age = Len(p.pay_percentages) - 1
  IN [p EXCEPT !.age = age,
               !.status = IF done THEN status_passed ELSE @,
               !.stage = IF done THEN stage_done ELSE @,
               !.current_payout = @ + get_payout_amount(p.pay_percentages, age, p.quantity,
                                                        p.current_payout)]

\* the payouts ending one evaluation late
eval_pass_evaluate_late(p) ==
  LET age == p.age + 1
      done == age = Len(p.pay_percentages)
  IN [p EXCEPT !.age = age,
               !.executed = IF done THEN TRUE ELSE @,
               !.status = IF done THEN status_passed ELSE @,
               !.stage = IF done THEN stage_done ELSE @,
               !.current_payout = @ + get_payout_amount(p.pay_percentages, age, p.quantity,
                                                        p.current_payout)]

eval_pass_evaluate(p) ==
  LET age == p.age + 1
      done == age = Len(p.pay_percentages) - 1
  IN [p EXCEPT !.age = age,
               !.executed = IF done THEN TRUE ELSE @,
               !.status = IF done THEN status_passed ELSE @,
               !.stage = IF done THEN stage_done ELSE @,
               !.current_payout = @ + get_payout_amount(p.pay_percentages, age, p.quantity,
                                                        p.current_payout)]

eval_fail(p, prop_cycle) ==
  [p EXCEPT !.passed_cycle = IF p.status # status_evaluate THEN prop_cycle ELSE @,
            !.executed = FALSE,
            !.staked = 0,
            !.status = status_rejected,
            !.stage = stage_done]

eval_active(p, prop_cycle) ==
  IF eval_passes(p, prop_cycle)
    THEN (IF p.status = status_open THEN eval_pass_open(p, prop_cycle)
          ELSE eval_pass_evaluate(p))
    ELSE eval_fail(p, prop_cycle)

\* the payout of a passing evaluation: escrow for an alliance, a transfer
\* from the fund otherwise
send_payout(p, payout_amount) ==
  IF get_type(p.fund) = alliance_type
    THEN send_to_escrow(p.fund, p.recipient, payout_amount)
    ELSE withdraw(p.recipient, payout_amount, p.fund)

sent_pass_open(p) ==
  LET payout_amount == get_payout_amount(p.pay_percentages, 0, p.quantity, p.current_payout)
  IN refund_staked(p.creator, p.staked) \o change_rep(p.creator) \o
     (IF get_type(p.fund) # alliance_type /\ p.campaign_type = campaign_invite_type
        THEN withdraw(self_scope, payout_amount, p.fund) \o
             withdraw(contracts_onboarding, payout_amount, self_scope) \o
             send_create_invite(p.creator, p.recipient, payout_amount, p.id)
        ELSE send_payout(p, payout_amount))

sent_pass_evaluate(p) ==
  send_payout(p, get_payout_amount(p.pay_percentages, p.age + 1, p.quantity, p.current_payout))

\* a failing evaluation that burns the stake in either status
sent_fail_always_burns(p) ==
  burn(p.staked) \o
  (IF p.campaign_type = campaign_invite_type THEN send_return_funds_campaign(p.id) ELSE <<>>)

sent_fail(p) ==
  (IF p.status # status_evaluate THEN burn(p.staked) ELSE send_punish(p.creator)) \o
  (IF p.campaign_type = campaign_invite_type THEN send_return_funds_campaign(p.id) ELSE <<>>)

eval_sent(proposal_id, prop_cycle) ==
  IF proposal_id \notin DOMAIN props \/ props[proposal_id].stage # stage_active THEN <<>>
  ELSE LET p == props[proposal_id]
       IN IF eval_passes(p, prop_cycle)
            THEN (IF p.status = status_open THEN sent_pass_open(p) ELSE sent_pass_evaluate(p))
            ELSE sent_fail(p)

\* evalproposal runs as the deferred transaction of a tick or on a manual
\* trigger of the contract authority; a missing proposal is a silent return
evalproposal(proposal_id, prop_cycle) ==
  LET e == evalproposal_err(proposal_id, prop_cycle)
  IN IF e # "" THEN Reject(e)
     ELSE /\ err' = ""
          /\ sent' = eval_sent(proposal_id, prop_cycle)
          /\ UNCHANGED <<votes, voice, deltrusts, participants, actives, cycle, lastprops,
                         assigned>>
          /\ IF proposal_id \notin DOMAIN props THEN UNCHANGED <<props, sizes, cyclestats>>
             ELSE LET p == props[proposal_id]
                  IN IF p.stage = stage_active
                       THEN /\ props' = [props EXCEPT ![proposal_id] = eval_active(p, prop_cycle)]
                            /\ sizes' = size_change(sizes, prop_active_size, -1)
                            /\ UNCHANGED cyclestats
                     ELSE IF promotes(p)
                       THEN /\ props' = [props EXCEPT ![proposal_id].stage = stage_active]
                            /\ sizes' = size_change(sizes, prop_active_size, 1)
                            /\ cyclestats' = update_cycle_stats_from_proposal(cyclestats, stage_active)
                     ELSE UNCHANGED <<props, sizes, cyclestats>>

(***************************************************************************)
(* Inputs of the specification.                                            *)
(***************************************************************************)
S25 == <<U(25), U(25), U(25), U(25)>>
SRising == <<U(10), U(20), U(30), U(40)>>
SShort == <<U(25), U(25), U(50)>>
SLow == <<U(25), U(25), U(25), U(24)>>
SFront == <<U(40), U(20), U(20), U(20)>>
SWrap == <<U(0), Huge(50), Huge(50), U(0)>>
SLong == [i \in 1..26 |-> IF i <= 4 THEN U(25) ELSE U(0)]
SMax == [i \in 1..25 |-> IF i <= 4 THEN U(25) ELSE U(0)]

\* create arguments <<creator, recipient, quantity, fund>>
CreateArgs ==
  { <<"carol", "alice", 40, bank_alliances>>,
    <<"carol", "alice", 40, bank_campaigns>> }

Voters == {"alice", "bob", "carol"}
VoteAmounts == {1, 2}
StakeArgs == { <<"carol", 1, 0>> }
DelegateArgs == { <<"bob", "alice", self_scope>>, <<"bob", "alice", alliance_type>> }
PropIds == 1..MaxProps

Next ==
  \/ \E a \in CreateArgs : Len(assigned) < MaxProps /\ create(a[1], a[2], a[3], a[4]) /\ UNCHANGED <<fn, deferred, pool>>
  \/ \E id \in PropIds : update(id) /\ UNCHANGED <<fn, deferred, pool>>
  \/ \E id \in PropIds : cancel(id) /\ UNCHANGED <<fn, deferred, pool>>
  \/ \E a \in StakeArgs : stake(a[1], a[2], a[3]) /\ UNCHANGED <<fn, deferred, pool>>
  \/ \E a \in {"alice", "bob"} : addactive(a) /\ UNCHANGED <<fn, deferred, pool>>
  \/ \E v \in Voters, id \in PropIds, a \in VoteAmounts : favour(v, id, a) /\ UNCHANGED <<fn, deferred, pool>>
  \/ \E v \in Voters, id \in PropIds, a \in VoteAmounts : against(v, id, a) /\ UNCHANGED <<fn, deferred, pool>>
  \/ \E v \in Voters, id \in PropIds : neutral(v, id) /\ UNCHANGED <<fn, deferred, pool>>
  \/ \E v \in {"bob"}, id \in PropIds, a \in VoteAmounts, o \in {trust, distrust, abstain} :
       voteonbehalf(v, id, a, o) /\ UNCHANGED <<fn, deferred, pool>>
  \/ \E a \in DelegateArgs : delegate(a[1], a[2], a[3]) /\ UNCHANGED <<fn, deferred, pool>>
  \/ \E a \in DelegateArgs : undelegate(a[1], a[3]) /\ UNCHANGED <<fn, deferred, pool>>
  \/ onperiod /\ UNCHANGED <<fn, deferred, pool>>
  \/ \E id \in PropIds, c \in 0..MaxCycle : c <= cycle.propcycle /\ evalproposal(id, c) /\ UNCHANGED <<fn, deferred, pool>>

Spec == Init /\ [][Next]_vars

(***************************************************************************)
(* SpecStaging: creation, update, cancellation and staking with every fund *)
(* and every kind of schedule, accepted and rejected.                      *)
(***************************************************************************)
StagingCreateArgs ==
  { <<"carol", bank_hypha, 40, bank_milestone>>,
    <<"carol", "alice", 40, bank_alliances>>,
    <<"dave", "alice", 40, bank_campaigns>>,
    <<"erin", "alice", 40, bank_campaigns>>,
    <<"carol", "alice", 40, bank_milestone>>,
    <<"carol", "nobody", 40, bank_campaigns>>,
    <<"carol", "alice", 0, bank_campaigns>>,
    <<"carol", "alice", 40, "erin">>,
    <<"carol", "alice", 40, "nobody">> }

StagingSchedules == {SRising, SShort, SLow, SFront, SLong, SMax, SWrap, <<>>}

StagingCreateInviteArgs ==
  { <<"carol", "alice", 40, bank_campaigns, 1, 2, 5>>,
    <<"carol", "alice", 40, bank_alliances, 1, 2, 5>>,
    <<"carol", "alice", 40, bank_campaigns, 0, 2, 5>>,
    <<"carol", "alice", 40, bank_campaigns, 1, 1, 5>>,
    <<"carol", "alice", 40, bank_campaigns, 1, 2, 6>> }

StagingStakeArgs ==
  { <<"carol", 1, 0>>, <<"erin", 1, 0>>, <<"erin", 0, 1>>, <<"erin", 2, 1>>, <<"erin", 1, 2>> }

StagedIds == 1..MaxStaged

NextStaging ==
  \/ \E a \in StagingCreateArgs : Len(assigned) < MaxStaged /\ create(a[1], a[2], a[3], a[4]) /\ UNCHANGED <<fn, deferred, pool>>
  \/ \E s \in StagingSchedules :
       Len(assigned) < MaxStaged /\ createx("carol", "alice", 40, bank_campaigns, s) /\ UNCHANGED <<fn, deferred, pool>>
  \/ \E a \in StagingCreateInviteArgs :
       Len(assigned) < MaxStaged /\ createinvite(a[1], a[2], a[3], a[4], a[5], a[6], a[7]) /\ UNCHANGED <<fn, deferred, pool>>
  \/ \E id \in StagedIds : update(id) /\ UNCHANGED <<fn, deferred, pool>>
  \/ \E id \in StagedIds, s \in {S25, SWrap, SShort, SLow} : updatex(id, s) /\ UNCHANGED <<fn, deferred, pool>>
  \/ \E id \in StagedIds : cancel(id) /\ UNCHANGED <<fn, deferred, pool>>
  \/ \E a \in StagingStakeArgs : stake(a[1], a[2], a[3]) /\ UNCHANGED <<fn, deferred, pool>>

SpecStaging == Init /\ [][NextStaging]_vars

(***************************************************************************)
(* C1.  Proposal ids are assigned exactly once and in increasing order:    *)
(* in the history of assigned ids every id is strictly greater than all    *)
(* ids assigned before it, also after a cancel.                            *)
(***************************************************************************)
C1_IdsStrictlyIncreasing ==
  \A i, j \in DOMAIN assigned : i < j => assigned[i] < assigned[j]

(***************************************************************************)
(* What a vote call made in the current state returns: "" when it is       *)
(* accepted, the message of the failing check when it is rejected.         *)
(***************************************************************************)
favour_err(voter, id, amount) ==
  vote_aux_err(props, votes, voter, id, amount, trust, TRUE, FALSE)

neutral_err(voter, id) ==
  vote_aux_err(props, votes, voter, id, 0, abstain, TRUE, FALSE)

reversing_err(voter, id, amount, is_delegated) ==
  LET e == revert_vote_err(voter, id)
  IN IF e # "" THEN e
     ELSE vote_aux_err(revert_props(voter, id), revert_votes(voter, id), voter, id,
                       amount, distrust, ~vote_reverted(voter, id), is_delegated)

against_err(voter, id, amount) == reversing_err(voter, id, amount, FALSE)

voteonbehalf_err(voter, id, amount, option) ==
  IF option = distrust THEN reversing_err(voter, id, amount, TRUE)
  ELSE vote_aux_err(props, votes, voter, id, amount, option, TRUE, TRUE)

PlainVoteErrs(v, id, a) ==
  {favour_err(v, id, a), neutral_err(v, id),
   voteonbehalf_err(v, id, a, trust), voteonbehalf_err(v, id, a, abstain)}

ReversingVoteErrs(v, id, a) ==
  {against_err(v, id, a), voteonbehalf_err(v, id, a, distrust)}

AtMostOneRow == \A r1, r2 \in votes :
  (r1.proposal_id = r2.proposal_id /\ r1.account = r2.account) => r1 = r2

RejectedUnchanged == err' # "" => UNCHANGED <<state, assigned>>

(***************************************************************************)
(* C2, as stated.  There is at most one vote row per (proposal, voter),    *)
(* and every vote call of a voter who already has a row on an Active,      *)
(* unexecuted proposal is rejected with 'only one vote', unless it is an   *)
(* against / voteonbehalf(distrust) that reverses the voter's favour row.  *)
(***************************************************************************)
C2_OnlyOneVoteMessage ==
  /\ AtMostOneRow
  /\ \A v \in Voters, id \in DOMAIN props, a \in VoteAmounts :
       ( /\ VoteRows(votes, id, v) # {}
         /\ props[id].stage = stage_active /\ ~props[id].executed )
       => /\ PlainVoteErrs(v, id, a) = {"only one vote"}
          /\ \A e \in ReversingVoteErrs(v, id, a) :
               \/ e = "only one vote"
               \/ e = "" /\ \A r \in VoteRows(votes, id, v) : r.favour

(***************************************************************************)
(* C2, amended.  There is at most one vote row per (proposal, voter).  A   *)
(* vote call of a voter who already has a row on the proposal is rejected  *)
(* and changes nothing, unless it is an against / voteonbehalf(distrust)   *)
(* that replaces the voter's favour row by one against row.  The message   *)
(* is 'only one vote' for favour, neutral and voteonbehalf(trust/abstain)  *)
(* on an Active proposal in status Open; against and                       *)
(* voteonbehalf(distrust) are rejected by revert_vote: 'Proposal is not    *)
(* in evaluate state' outside status Evaluate, 'Only trust votes can be    *)
(* changed' in status Evaluate when the row is not a favour vote.          *)
(***************************************************************************)
C2_SecondVote ==
  \A v \in Voters, id \in DOMAIN props, a \in VoteAmounts :
    VoteRows(votes, id, v) # {} =>
      /\ "" \notin PlainVoteErrs(v, id, a)
      /\ (props[id].stage = stage_active /\ props[id].status = status_open)
           => PlainVoteErrs(v, id, a) = {"only one vote"}
      /\ \A e \in ReversingVoteErrs(v, id, a) :
           /\ props[id].status # status_evaluate
                => e = "Proposal is not in evaluate state"
           /\ ( /\ props[id].status = status_evaluate
                /\ \E r \in VoteRows(votes, id, v) : ~r.favour )
                => e = "Only trust votes can be changed"

\* an accepted vote leaves exactly its own row for the voter on the proposal,
\* and replaces nothing but a favour row by an against row
C2_NewRowStep ==
  \A r \in votes' \ votes :
    /\ VoteRows(votes', r.proposal_id, r.account) = {r}
    /\ \A old \in VoteRows(votes, r.proposal_id, r.account) : old.favour /\ ~r.favour

C2_AtMostOneVoteRow ==
  /\ [](AtMostOneRow /\ C2_SecondVote)
  /\ [][RejectedUnchanged /\ C2_NewRowStep]_vars

C2_Witness ==
  /\ err = "only one vote"
  /\ \E r \in votes :
       r.proposal_id \in DOMAIN props /\ props[r.proposal_id].status = status_open

(***************************************************************************)
(* C3, as stated.  A voter holding a favour vote on an Active proposal,    *)
(* in status Open or Evaluate, can cast against: the call is accepted.     *)
(* (The voter has not delegated and has the voice the new vote costs.)     *)
(***************************************************************************)
CanPay(v, id, a) ==
  /\ v \in DOMAIN voice[voice_scope(props[id].fund)]
  /\ a <= voice[voice_scope(props[id].fund)][v]
  /\ ~is_trust_delegated(v, voice_scope(props[id].fund))

HoldsFavour(v, id) == \E r \in VoteRows(votes, id, v) : r.favour /\ r.amount > 0

C3_ReversalInOpenAndEvaluate ==
  \A v \in Voters, id \in DOMAIN props, a \in VoteAmounts :
    ( /\ HoldsFavour(v, id) /\ CanPay(v, id, a)
      /\ props[id].stage = stage_active
      /\ props[id].status \in {status_open, status_evaluate} )
    => against_err(v, id, a) = ""

(***************************************************************************)
(* C3, amended.  Casting against by a voter who holds a favour vote on an  *)
(* Active proposal succeeds only in status Evaluate: there the favour      *)
(* amount leaves the proposal's favour and total tallies, the favour row   *)
(* is erased and the against vote is recorded.  In status Open the call is *)
(* rejected with 'Proposal is not in evaluate state' and nothing changes.  *)
(***************************************************************************)
C3_ReversalCall ==
  \A v \in Voters, id \in DOMAIN props, a \in VoteAmounts :
    (HoldsFavour(v, id) /\ CanPay(v, id, a) /\ props[id].stage = stage_active)
    => /\ props[id].status = status_evaluate => against_err(v, id, a) = ""
       /\ props[id].status = status_open
            => against_err(v, id, a) = "Proposal is not in evaluate state"

C3_ReversalStep ==
  \A r \in votes' \ votes :
    \A old \in VoteRows(votes, r.proposal_id, r.account) :
      LET id == r.proposal_id
      IN /\ props[id].status = status_evaluate
         /\ votes' = (votes \ {old}) \cup {r}
         /\ ~r.favour
         /\ props'[id].favour = props[id].favour - old.amount
         /\ props'[id].total = props[id].total - old.amount + r.amount
         /\ props'[id].against = props[id].against + r.amount

C3_ReversalOnlyInEvaluate ==
  /\ []C3_ReversalCall
  /\ [][RejectedUnchanged /\ C3_ReversalStep]_vars

C3_Witness ==
  /\ err = ""
  /\ \E r \in votes :
       /\ ~r.favour /\ r.amount > 0
       /\ r.proposal_id \in DOMAIN props
       /\ props[r.proposal_id].status = status_evaluate
       /\ props[r.proposal_id].favour = 0
       /\ props[r.proposal_id].against = r.amount

(***************************************************************************)
(* C4.  A vote is accepted only if the voter is a citizen and the proposal *)
(* exists, is not executed, is in stage Active and, unless the vote        *)
(* reverses a prior vote of the voter, in status Open.  Votes of           *)
(* non-citizens, on Staged or Done proposals, and first votes on a         *)
(* proposal in status Evaluate are rejected.                               *)
(***************************************************************************)
AllVoteErrs(v, id, a) == PlainVoteErrs(v, id, a) \cup ReversingVoteErrs(v, id, a)

C4_Rejected ==
  \A v \in Voters, id \in PropIds, a \in VoteAmounts :
    ( \/ check_citizen(v) # ""
      \/ id \notin DOMAIN props
      \/ props[id].executed
      \/ props[id].stage \in {stage_staged, stage_done}
      \/ props[id].status = status_evaluate /\ VoteRows(votes, id, v) = {} )
    => "" \notin AllVoteErrs(v, id, a)

C4_AcceptedStep ==
  \A r \in votes' \ votes :
    LET id == r.proposal_id
    IN /\ check_citizen(r.account) = ""
       /\ id \in DOMAIN props
       /\ ~props[id].executed
       /\ props[id].stage = stage_active
       /\ VoteRows(votes, id, r.account) = {} => props[id].status = status_open

C4_VoteRequirements == []C4_Rejected /\ [][C4_AcceptedStep]_vars

C4_Witness ==
  /\ \E v \in Voters : err = evaluate_state_msg(v)
  /\ \E id \in DOMAIN props : props[id].status = status_evaluate /\ votes # {}

(***************************************************************************)
(* C5.  Every voice balance, in the default and in the alliance scope, is  *)
(* never negative: a vote above the voter's balance in the scope of the    *)
(* proposal's fund is rejected ('voice balance exceeded' once the vote is  *)
(* otherwise admissible), and an accepted vote takes exactly its amount    *)
(* from that balance and from no other.                                    *)
(***************************************************************************)
C5_NonNegative ==
  \A s \in DOMAIN voice : \A u \in DOMAIN voice[s] : voice[s][u] >= 0

C5_OverdraftRejected ==
  \A v \in Voters, id \in DOMAIN props, a \in VoteAmounts :
    LET s == voice_scope(props[id].fund)
    IN (v \in DOMAIN voice[s] /\ a > voice[s][v]) =>
         /\ \A e \in {favour_err(v, id, a), against_err(v, id, a),
                      voteonbehalf_err(v, id, a, trust),
                      voteonbehalf_err(v, id, a, distrust)} : e # ""
         /\ ( /\ props[id].stage = stage_active /\ props[id].status = status_open
              /\ VoteRows(votes, id, v) = {} )
              => favour_err(v, id, a) = "voice balance exceeded"

C5_DebitStep ==
  \A r \in votes' \ votes :
    LET s == voice_scope(props[r.proposal_id].fund)
    IN /\ r.amount <= voice[s][r.account]
       /\ voice' = [voice EXCEPT ![s][r.account] = @ - r.amount]

C5_VoiceNeverNegative ==
  /\ [](C5_NonNegative /\ C5_OverdraftRejected)
  /\ [][C5_DebitStep]_vars

C5_Witness ==
  /\ err = "voice balance exceeded"
  /\ \E r \in votes :
       /\ r.amount > 0
       /\ r.proposal_id \in DOMAIN props
       /\ voice[voice_scope(props[r.proposal_id].fund)][r.account] = 0

stake_cap_msg == "The staked value can not be greater than cap"

C7_StakeStep ==
  \A a \in StagingStakeArgs :
    LET id == stake_target(a[1], a[3])
    IN (stake(a[1], a[2], a[3]) /\ id \in DOMAIN props /\ a[2] > 0)
       => IF props[id].staked + a[2] > cap_stake(props[id].fund)
            THEN err' = stake_cap_msg /\ UNCHANGED state
            ELSE /\ err' = ""
                 /\ props'[id].staked = props[id].staked + a[2]
                 /\ props' = [props EXCEPT ![id].staked = props'[id].staked]

C7_StakeWithinCap ==
  /\ [](\A id \in DOMAIN props : props[id].staked <= cap_stake(props[id].fund))
  /\ [][C7_StakeStep]_vars

C7_Witness ==
  /\ err = stake_cap_msg
  /\ \E id \in DOMAIN props :
       props[id].fund = bank_alliances /\ props[id].staked = cap_stake(bank_alliances)

(***************************************************************************)
(* C8.  Every stored proposal has a payout schedule of 4 to 25 entries     *)
(* whose percentages sum to 100.                                           *)
(***************************************************************************)
C8_ScheduleValid ==
  \A id \in DOMAIN props :
    /\ ExactSum(props[id].pay_percentages) = U(100)
    /\ Len(props[id].pay_percentages) >= 4
    /\ Len(props[id].pay_percentages) <= 25

(***************************************************************************)
(* C9.  Every proposal is in one of (Staged,Open), (Active,Open),          *)
(* (Active,Evaluate), (Done,Passed), (Done,Rejected); it moves only        *)
(* Staged -> Active(Open) -> Active(Evaluate) -> Done, or to               *)
(* Done/Rejected from an Active state; executed holds exactly when the     *)
(* status is Passed; a proposal in stage Done stays in the table with its  *)
(* stage, status, age and current_payout unchanged.                        *)
(***************************************************************************)
StageStatus(p) == <<p.stage, p.status>>

LifecycleStates ==
  { <<stage_staged, status_open>>, <<stage_active, status_open>>,
    <<stage_active, status_evaluate>>, <<stage_done, status_passed>>,
    <<stage_done, status_rejected>> }

LifecycleMoves ==
  { <<<<stage_staged, status_open>>, <<stage_active, status_open>>>>,
    <<<<stage_active, status_open>>, <<stage_active, status_evaluate>>>>,
    <<<<stage_active, status_evaluate>>, <<stage_done, status_passed>>>>,
    <<<<stage_active, status_open>>, <<stage_done, status_rejected>>>>,
    <<<<stage_active, status_evaluate>>, <<stage_done, status_rejected>>>> }

C9_States ==
  \A id \in DOMAIN props :
    /\ StageStatus(props[id]) \in LifecycleStates
    /\ props[id].executed <=> props[id].status = status_passed

C9_Step ==
  \A id \in DOMAIN props :
    /\ id \in DOMAIN props' =>
         \/ StageStatus(props'[id]) = StageStatus(props[id])
         \/ <<StageStatus(props[id]), StageStatus(props'[id])>> \in LifecycleMoves
    /\ props[id].stage = stage_done =>
         /\ id \in DOMAIN props'
         /\ props'[id].stage = props[id].stage
         /\ props'[id].status = props[id].status
         /\ props'[id].age = props[id].age
         /\ props'[id].current_payout = props[id].current_payout

C9_Lifecycle == []C9_States /\ [][C9_Step]_vars

C9_Witness ==
  \E id \in DOMAIN props :
    /\ StageStatus(props[id]) = <<stage_done, status_passed>>
    /\ props[id].executed
    /\ props[id].age = Len(props[id].pay_percentages) - 1
    /\ props[id].current_payout = props[id].quantity

(***************************************************************************)
(* C10.  An evalproposal that runs on a Staged proposal makes it Active    *)
(* if and only if its stake is at least min_stake(quantity, fund), and     *)
(* changes nothing else of the proposal; below the minimum it changes      *)
(* nothing at all.  A stake deposit never changes a stage.                 *)
(***************************************************************************)
EnoughStake(p) == p.staked >= min_stake(p.quantity, p.fund)

C10_EvalStep ==
  \A id \in DOMAIN props :
    props[id].stage = stage_staged =>
      \A c \in 0..MaxCycle :
        (evalproposal(id, c) /\ err' = "") =>
          IF EnoughStake(props[id])
            THEN props' = [props EXCEPT ![id].stage = stage_active]
            ELSE UNCHANGED state

C10_PromotedStep ==
  \A id \in DOMAIN props :
    ( /\ props[id].stage = stage_staged
      /\ id \in DOMAIN props'
      /\ props'[id].stage # stage_staged )
    => /\ EnoughStake(props[id])
       /\ props'[id] = [props[id] EXCEPT !.stage = stage_active]

C10_StakeStep ==
  \A a \in StakeArgs :
    stake(a[1], a[2], a[3]) =>
      /\ DOMAIN props' = DOMAIN props
      /\ \A id \in DOMAIN props : StageStatus(props'[id]) = StageStatus(props[id])

C10_PromotionAtMinStake == [][C10_EvalStep /\ C10_PromotedStep /\ C10_StakeStep]_vars

C10_Witness ==
  /\ err = ""
  /\ \E id \in DOMAIN props :
       /\ props[id].fund = bank_campaigns
       /\ StageStatus(props[id]) = <<stage_active, status_open>>
       /\ props[id].staked = min_stake(props[id].quantity, props[id].fund)
       /\ props[id].staked > 1
       /\ props[id].total = 0

(***************************************************************************)
(* min_stake as a function: one evaluation for a quantity and a fund.      *)
(***************************************************************************)
Quantities == {20 * k : k \in 0..MaxQuantityStep}
Funds == {bank_milestone, bank_alliances, bank_campaigns}

InitMinStake ==
  /\ Tables
  /\ call \in [quantity : Quantities, fund : Funds]
  /\ ret = <<>>

call_min_stake ==
  /\ ret = <<>>
  /\ ret' = <<min_stake(call.quantity, call.fund)>>
  /\ UNCHANGED <<state, err, assigned, sent, deferred, pool, call>>

SpecMinStake == InitMinStake /\ [][call_min_stake]_vars

(***************************************************************************)
(* C11.  For every fund and quantity, min_stake(quantity, fund) is         *)
(* min(cap(fund), max(minimum(fund), floor(percentage(fund) * quantity))), *)
(* with cap(fund) the cap the stake operation enforces.                    *)
(***************************************************************************)
StatedMinimum(fund) ==
  IF fund = bank_campaigns THEN cfg_prop_cmp_min
  ELSE IF fund = bank_alliances THEN cfg_prop_al_min
  ELSE cfg_propminstake

\* the fund's percentage of the quantity, rounded down
StatedShare(quantity, fund) ==
  IF fund = bank_campaigns THEN (cfg_prop_cmp_pct * quantity) \div 1000000
  ELSE IF fund = bank_alliances THEN (cfg_prop_al_pct * quantity) \div 1000000
  ELSE (cfg_propstakeper * quantity) \div 100

C11_MinStakeClampedToStakeCap ==
  ret # <<>> =>
    ret[1] = Min(cap_stake(call.fund),
                 Max(StatedMinimum(call.fund), StatedShare(call.quantity, call.fund)))

(***************************************************************************)
(* The pass test of evalproposal as a function of the tallies, the         *)
(* propmajority setting, the status and the quorum_votes_needed of the     *)
(* evaluated cycle.                                                        *)
(***************************************************************************)
Majorities == {50, 56}
QuorumsNeeded == {0, 10}

InitPassTest ==
  /\ Tables
  /\ call \in [favour : 0..MaxTally, against : 0..MaxTally, majority : Majorities,
               status : {status_open, status_evaluate},
               quorum_votes_needed : QuorumsNeeded]
  /\ ret = <<>>

call_pass_test ==
  /\ ret = <<>>
  /\ ret' = << /\ passed(call.favour, call.against, call.majority)
               /\ eval_valid_quorum(call, call.quorum_votes_needed) >>
  /\ UNCHANGED <<state, err, assigned, sent, deferred, pool, call>>

SpecPassTest == InitPassTest /\ [][call_pass_test]_vars

(***************************************************************************)
(* C12.  An evaluated Active proposal passes if and only if favour > 0,    *)
(* favour * 100 >= majority_pct * (favour + against), and the status is    *)
(* Evaluate or favour >= quorum_votes_needed of the evaluated cycle.       *)
(***************************************************************************)
C12_PassesIffMajorityAndQuorum ==
  ret # <<>> =>
    ( ret[1] <=>
        /\ call.favour > 0
        /\ call.favour * 100 >= call.majority * (call.favour + call.against)
        /\ \/ call.status = status_evaluate
           \/ call.favour >= call.quorum_votes_needed )

(***************************************************************************)
(* The quorum percentage and the votes needed, as update_cycle_stats_from_ *)
(* proposal and init_cycle_new_stats compute them for a cycle with n       *)
(* active proposals, from the quorum settings and the cycle's              *)
(* quorum_vote_base.                                                       *)
(***************************************************************************)
QuorumSettings ==
  { [base_quorum |-> 8, quorum_min |-> 4, quorum_max |-> 8],
    [base_quorum |-> 40, quorum_min |-> 10, quorum_max |-> 90],
    [base_quorum |-> 58, quorum_min |-> 10, quorum_max |-> 90] }

VoteBases == {25 * k : k \in 0..MaxBaseStep}

InitQuorum ==
  /\ Tables
  /\ call \in [settings : QuorumSettings, num_proposals : 0..MaxQuorumProps,
               quorum_vote_base : VoteBases]
  /\ ret = <<>>

call_quorum ==
  /\ ret = <<>>
  /\ LET q == quorum_of(call.settings.base_quorum, call.settings.quorum_min,
                        call.settings.quorum_max, call.num_proposals)
     IN ret' = [quorum |-> q,
                quorum_votes_needed |-> TruncScaled(q, call.quorum_vote_base)]
  /\ UNCHANGED <<state, err, assigned, sent, deferred, pool, call>>

SpecQuorum == InitQuorum /\ [][call_quorum]_vars

(***************************************************************************)
(* C13.  get_quorum(n) is clamp(floor(base_quorum / n), min_pct, max_pct)  *)
(* for n >= 1 and does not increase with n; the quorum_votes_needed of a   *)
(* cycle is floor(quorum_vote_base * get_quorum(num_proposals) / 100),     *)
(* also for num_proposals = 0.                                             *)
(***************************************************************************)
Clamp(x, lo, hi) == Min(hi, Max(lo, x))

C13_QuorumAndVotesNeeded ==
  ret # <<>> =>
    LET c == call.settings
        n == call.num_proposals
    IN /\ n >= 1 => ret.quorum = Clamp(c.base_quorum \div n, c.quorum_min, c.quorum_max)
       /\ \A m \in 1..n :
            quorum_of(c.base_quorum, c.quorum_min, c.quorum_max, m) >= ret.quorum
       /\ ret.quorum_votes_needed = (call.quorum_vote_base * ret.quorum) \div 100

(***************************************************************************)
(* The first passing evaluation.                                           *)
(***************************************************************************)
Range(s) == {s[i] : i \in DOMAIN s}

\* the payout of an amount from the fund of p: locked in escrow for the
\* recipient of an alliance, transferred to the recipient otherwise
PaidOut(p, amount, actions) ==
  IF p.fund = bank_alliances
    THEN /\ Transfer(p.fund, contracts_escrow, amount) \in Range(actions)
         /\ [action |-> "lock", from |-> p.fund, to |-> p.recipient, quantity |-> amount]
              \in Range(actions)
    ELSE amount > 0 => Transfer(p.fund, p.recipient, amount) \in Range(actions)

ActiveOpen(p) == p.stage = stage_active /\ p.status = status_open

\* an accepted evaluation of an Active/Open proposal that passes moves it to
\* Evaluate
C14_PassStep ==
  \A id \in DOMAIN props :
    ActiveOpen(props[id]) =>
      \A c \in 0..MaxCycle :
        (eval_passes(props[id], c) /\ evalproposal(id, c) /\ err' = "") =>
          props'[id].status = status_evaluate /\ props'[id].passed_cycle = c

\* the step that moves an Active/Open proposal to Evaluate
C14_OutcomeStep ==
  \A id \in DOMAIN props :
    ( /\ ActiveOpen(props[id])
      /\ id \in DOMAIN props'
      /\ props'[id].status # status_open
      /\ props'[id].status # status_rejected )
    => LET p == props[id]
           q == props'[id]
           slice == get_payout_amount(p.pay_percentages, 0, p.quantity, p.current_payout)
       IN /\ p.staked > 0 => Transfer(contracts_bank, p.creator, p.staked) \in Range(sent')
          /\ PaidOut(p, slice, sent')
          /\ \A a \in Range(sent') : a.action # "burn" /\ a.action # "punish"
          /\ q = [p EXCEPT !.status = status_evaluate,
                           !.age = 0,
                           !.staked = 0,
                           !.passed_cycle = q.passed_cycle,
                           !.current_payout = p.current_payout + slice]
          /\ q.stage = stage_active
          /\ \E c \in 0..MaxCycle : q.passed_cycle = c /\ eval_passes(p, c)

(***************************************************************************)
(* C14: when an Active proposal in status Open passes evaluation, the one  *)
(* step refunds its whole stake to the creator, pays out the slice of      *)
(* index 0 and leaves the proposal Active/Evaluate with age 0, staked 0,   *)
(* passed_cycle the evaluated cycle and current_payout raised by exactly   *)
(* the slice paid.                                                         *)
(***************************************************************************)
C14_FirstPass == [][C14_PassStep /\ C14_OutcomeStep]_vars

C14_Witness ==
  /\ err = ""
  /\ \E id \in DOMAIN props :
       LET p == props[id]
       IN /\ p.status = status_evaluate /\ p.stage = stage_active /\ p.age = 0
          /\ p.staked = 0 /\ p.current_payout > 0
          /\ Transfer(contracts_bank, p.creator, 2) \in Range(sent)
          /\ Transfer(p.fund, p.recipient, p.current_payout) \in Range(sent)

(***************************************************************************)
(* The later passing evaluations.                                          *)
(***************************************************************************)
ActiveEvaluate(p) == p.stage = stage_active /\ p.status = status_evaluate

LastAge(p) == Len(p.pay_percentages) - 1

\* an accepted evaluation of an Active/Evaluate proposal that passes
C15_PassStep ==
  \A id \in DOMAIN props :
    ActiveEvaluate(props[id]) =>
      \A c \in 0..MaxCycle :
        (eval_passes(props[id], c) /\ evalproposal(id, c) /\ err' = "") =>
          props'[id].age = props[id].age + 1

\* the step that changes the age of an Active/Evaluate proposal
C15_AgeStep ==
  \A id \in DOMAIN props :
    ( /\ ActiveEvaluate(props[id])
      /\ id \in DOMAIN props'
      /\ props'[id].age # props[id].age )
    => LET p == props[id]
           q == props'[id]
           slice == get_payout_amount(p.pay_percentages, p.age + 1, p.quantity,
                                      p.current_payout)
       IN /\ q.age = p.age + 1
          /\ PaidOut(p, slice, sent')
          /\ q.current_payout = p.current_payout + slice
          /\ StageStatus(q) = IF q.age = LastAge(p)
                                THEN <<stage_done, status_passed>>
                                ELSE <<stage_active, status_evaluate>>
          /\ \E c \in 0..MaxCycle : eval_passes(p, c)

\* age + 1 passing evaluations lie behind a proposal in Evaluate or Passed;
\* a proposal in Evaluate that can still pass has payouts left
C15_Ages ==
  \A id \in DOMAIN props :
    LET p == props[id]
    IN /\ p.status = status_evaluate => p.stage = stage_active
       /\ p.status = status_evaluate /\ p.favour > 0 => p.age < LastAge(p)
       /\ p.status = status_passed => p.stage = stage_done /\ p.age = LastAge(p)
       /\ p.status = status_open => p.age = 0

(***************************************************************************)
(* C15: each passing evaluation of a proposal in status Evaluate raises    *)
(* age by exactly 1 and pays the slice of the new age; the proposal        *)
(* becomes Done/Passed exactly when the new age is len(schedule) - 1 and   *)
(* stays Active/Evaluate otherwise, so Done/Passed is reached after        *)
(* exactly len(schedule) passing evaluations.                              *)
(***************************************************************************)
C15_AgeAdvances == []C15_Ages /\ [][C15_PassStep /\ C15_AgeStep]_vars

C15_Witness ==
  /\ err = ""
  /\ \E id \in DOMAIN props :
       LET p == props[id]
       IN /\ StageStatus(p) = <<stage_done, status_passed>>
          /\ p.age = 3 /\ Len(p.pay_percentages) = 4
          /\ p.current_payout = p.quantity
          /\ sent # <<>>

(***************************************************************************)
(* get_payout_amount as a function: one evaluation for a schedule, an age, *)
(* a requested quantity and the amount paid so far.                        *)
(***************************************************************************)
SUneven == <<U(14), U(29), U(28), U(29)>>
SFive == <<U(20), U(20), U(20), U(20), U(20)>>

PayoutSchedules == {S25, SRising, SUneven, SFive}
PayoutQuantities == {25 * k : k \in 1..MaxBaseStep}

InitPayout ==
  /\ Tables
  /\ call \in [pay_percentages : PayoutSchedules, age : 0..5,
               total_amount : PayoutQuantities, current_payout : {0, 25}]
  /\ ret = <<>>

call_get_payout_amount ==
  /\ ret = <<>>
  /\ ret' = <<get_payout_amount(call.pay_percentages, call.age, call.total_amount,
                                call.current_payout)>>
  /\ UNCHANGED <<state, err, assigned, sent, deferred, pool, call>>

SpecPayout == InitPayout /\ [][call_get_payout_amount]_vars

(***************************************************************************)
(* C16.  A slice before the last pays floor(percentage[age] * quantity /   *)
(* 100), the last slice pays quantity - current_payout, and there is no    *)
(* slice beyond the schedule.                                              *)
(***************************************************************************)
C16_PayoutArithmetic ==
  ret # <<>> =>
    ret[1] = IF call.age >= Len(call.pay_percentages) THEN 0
             ELSE IF call.age = Len(call.pay_percentages) - 1
               THEN call.total_amount - call.current_payout
             ELSE (call.pay_percentages[call.age + 1][2] * call.total_amount) \div 100

(***************************************************************************)
(* The failing evaluation.                                                 *)
(***************************************************************************)
Rejected(p) == p.stage = stage_done /\ p.status = status_rejected

\* what a failing evaluation of p leaves and sends
FailOutcome(p, q, actions) ==
  /\ q = [p EXCEPT !.status = status_rejected,
                   !.stage = stage_done,
                   !.executed = FALSE,
                   !.staked = 0,
                   !.passed_cycle = q.passed_cycle]
  /\ \A a \in Range(actions) : a.action \notin {"transfer", "lock", "createcampg", "addrep"}
  /\ IF p.status = status_open
       THEN /\ [action |-> "burn", from |-> contracts_bank, quantity |-> p.staked]
                 \in Range(actions)
            /\ \A a \in Range(actions) : a.action # "punish"
       ELSE /\ [action |-> "punish", account |-> p.creator] \in Range(actions)
            /\ \A a \in Range(actions) : a.action # "burn"

\* an accepted evaluation of an Active proposal that does not pass
C17_FailStep ==
  \A id \in DOMAIN props :
    props[id].stage = stage_active =>
      \A c \in 0..MaxCycle :
        (~eval_passes(props[id], c) /\ evalproposal(id, c) /\ err' = "") =>
          FailOutcome(props[id], props'[id], sent')

\* the step that rejects an Active proposal
C17_RejectedStep ==
  \A id \in DOMAIN props :
    ( /\ props[id].stage = stage_active
      /\ id \in DOMAIN props'
      /\ props'[id].status = status_rejected )
    => /\ FailOutcome(props[id], props'[id], sent')
       /\ \E c \in 0..MaxCycle : ~eval_passes(props[id], c)

(***************************************************************************)
(* C17: an Active proposal that fails evaluation becomes Done/Rejected     *)
(* with executed false and staked 0; from status Open its whole stake is   *)
(* burned and nothing is refunded or paid, from status Evaluate no stake   *)
(* is burned and the creator is punished; no payout is made either way.    *)
(***************************************************************************)
C17_FailedEvaluation == [][C17_FailStep /\ C17_RejectedStep]_vars

C17_Witness ==
  /\ err = ""
  /\ \E id \in DOMAIN props :
       /\ Rejected(props[id])
       /\ props[id].current_payout > 0
       /\ sent = send_punish(props[id].creator)

(***************************************************************************)
(* C18.  cancel succeeds only for a proposal in stage Staged with status   *)
(* Open: a cancel of a proposal that was promoted to Active, or is Done,   *)
(* is rejected.                                                            *)
(***************************************************************************)
C18_CancelOnlyStaged ==
  \A id \in DOMAIN props :
    cancel_err(id) = "" => props[id].stage = stage_staged /\ props[id].status = status_open

(***************************************************************************)
(* C19.  update and updatex are rejected whenever a vote row exists for    *)
(* the proposal, a row of an abstain vote or of a vote of amount 0         *)
(* included.                                                               *)
(***************************************************************************)
C19_NoUpdateOnceVoted ==
  \A id \in DOMAIN props :
    (\E r \in votes : r.proposal_id = id) => updatex_err(id, props[id].pay_percentages) # ""

(***************************************************************************)
(* SpecDelegation: delegate and undelegate of three accounts in both       *)
(* scopes, a delegation to oneself and to an account without voice         *)
(* included; addactive gives the three accounts their voice rows.          *)
(***************************************************************************)
Delegators == {"alice", "bob", "carol"}
Delegatees == Delegators \cup {"dave"}
Scopes == {self_scope, alliance_type}

NextDelegation ==
  \/ \E a \in Delegators : addactive(a) /\ UNCHANGED <<fn, deferred, pool>>
  \/ \E a \in Delegators, b \in Delegatees, s \in Scopes : delegate(a, b, s) /\ UNCHANGED <<fn, deferred, pool>>
  \/ \E a \in Delegators, s \in Scopes : undelegate(a, s) /\ UNCHANGED <<fn, deferred, pool>>

SpecDelegation == Init /\ [][NextDelegation]_vars

\* the account n hops along the outgoing edges of D from a, "" past the end
RECURSIVE Hop(_, _, _)
Hop(D, a, n) ==
  IF n = 0 THEN a
  ELSE IF a \in DOMAIN D THEN Hop(D, D[a], n - 1)
  ELSE ""

(***************************************************************************)
(* C20.  In every scope, following the outgoing delegation edges from a    *)
(* delegator for 1..max_depth hops never arrives back at the delegator;    *)
(* in particular no account delegates to itself.                           *)
(***************************************************************************)
C20_NoDelegationCycles ==
  \A s \in DOMAIN deltrusts :
    \A d \in DOMAIN deltrusts[s] :
      \A n \in 1..cfg_dlegate_dpth : Hop(deltrusts[s], d, n) # d

\* no walk along the edges of D comes back to where it started
Acyclic(D) ==
  \A d \in DOMAIN D : \A n \in 1..Cardinality(DOMAIN D) : Hop(D, d, n) # d

\* the walk from the delegatee reaches the delegator within max_depth hops
ReturnsTo(D, delegator, delegatee) ==
  \E n \in 1..cfg_dlegate_dpth : Hop(D, delegatee, n) = delegator

(***************************************************************************)
(* C21.  A delegate call of a delegator that has a voice row is rejected   *)
(* only if the walk along the existing edges from the delegatee returns to *)
(* the delegator within max_depth hops; an acyclic chain of max_depth or   *)
(* more edges behind the delegatee does not reject it.                     *)
(***************************************************************************)
C21_RejectedOnlyOnReturn ==
  \A s \in Scopes :
    Acyclic(deltrusts[s]) =>
      \A a \in DOMAIN voice[s] : \A b \in Delegatees :
        a # b /\ delegate_err(a, b, s) # "" => ReturnsTo(deltrusts[s], a, b)

\* the voice balance of an account in a scope, 0 without a row
VoiceBalance(s, a) == IF a \in DOMAIN voice[s] THEN voice[s][a] ELSE 0

(***************************************************************************)
(* C22.  A delegate call is rejected whenever the delegator's voice        *)
(* balance in the scope is zero, a voice row of balance 0 included.        *)
(***************************************************************************)
C22_ZeroVoiceCannotDelegate ==
  \A s \in Scopes : \A a \in Delegators : \A b \in Delegatees :
    VoiceBalance(s, a) = 0 => delegate_err(a, b, s) # ""

(***************************************************************************)
(* Voice refresh and voice decay.  Both walk the voice table of the        *)
(* default scope in the order of the account keys, a chunk at a time, and  *)
(* schedule their own follow-up.  start is the key of the first account of *)
(* the chunk, 0 for the beginning of the table.  The actives table holds   *)
(* no timestamps here: every recorded activity is after the cutoff, and an *)
(* account is inactive when it has no row.                                 *)
(***************************************************************************)
\* a walk that resumes behind the account of the cursor
VoiceFrom_behind(start) ==
  SortedAccounts({a \in DOMAIN voice[self_scope] : Key(a) > start})

\* start == 0 ? voice.begin() : voice.find(start), and the rows from there on
VoiceFrom(start) ==
  IF start = 0 THEN SortedAccounts(DOMAIN voice[self_scope])
  ELSE IF AccountOrder[start] \in DOMAIN voice[self_scope]
    THEN SortedAccounts({a \in DOMAIN voice[self_scope] : Key(a) >= start})
  ELSE <<>>

is_active(account) == account \in actives

cs_points(account) == IF account \in DOMAIN Rank THEN Rank[account] ELSE 0

RECURSIVE vote_power_of(_)
vote_power_of(accounts) ==
  IF accounts = <<>> THEN 0
  ELSE (IF is_active(Head(accounts)) THEN cs_points(Head(accounts)) ELSE 0)
       + vote_power_of(Tail(accounts))

updatevoice_tx(start) == [name |-> "updatevoice", start |-> start]

decayvoice_tx(start, chunksize) ==
  [name |-> "decayvoice", start |-> start, chunksize |-> chunksize]

\* the follow-up of a chunk that stopped before the end of the table
next_execution(rest, tx) ==
  IF rest = <<>> THEN <<>> ELSE <<Deferred(<<rest[1], 0>>, tx)>>

updatevoice(start) ==
  LET rows == VoiceFrom(start)
      chunk == Take(rows, cfg_batchsize)
      rest == Drop(rows, cfg_batchsize)
      s0 == IF start = 0
              THEN size_set(size_set(sizes, cycle_vote_power_size, 0), user_active_size, 0)
              ELSE sizes
      s1 == size_change(s0, cycle_vote_power_size, vote_power_of(chunk))
      active_users == Cardinality({a \in Range(chunk) : is_active(a)})
  IN /\ voice' = [s \in DOMAIN voice |->
                    [a \in DOMAIN voice[s] \cup Range(chunk) |->
                       IF a \in Range(chunk) THEN cs_points(a) ELSE voice[s][a]]]
     /\ sizes' = size_change(s1, user_active_size, active_users)
     /\ err' = ""
     /\ sent' = next_execution(rest, updatevoice_tx(IF rest = <<>> THEN 0 ELSE Key(rest[1])))
     /\ UNCHANGED <<props, votes, deltrusts, participants, actives, cycle, cyclestats,
                    lastprops, assigned>>

updatevoices == updatevoice(0)

\* decayvoice reading percentage_decay for the setting vdecayprntge
decayvoice_err(percentage_decay) ==
  check(percentage_decay <= 100, "Voice decay parameter can not be more than 100%.")

\* the chunk of decayvoice and its follow-up
decay_chunk(start, chunksize, percentage_decay) ==
  LET rows == VoiceFrom(start)
      chunk == Take(rows, chunksize)
      rest == Drop(rows, chunksize)
  IN /\ voice' = [s \in DOMAIN voice |->
                    [a \in DOMAIN voice[s] |->
                       IF a \in Range(chunk)
                         THEN TruncScaled(100 - percentage_decay, voice[s][a])
                         ELSE voice[s][a]]]
     /\ sent' = next_execution(rest,
                  decayvoice_tx(IF rest = <<>> THEN 0 ELSE Key(rest[1]), chunksize))

decayvoice_with(start, chunksize, percentage_decay) ==
  LET e == decayvoice_err(percentage_decay)
  IN IF e # "" THEN Reject(e)
     ELSE /\ decay_chunk(start, chunksize, percentage_decay)
          /\ err' = ""
          /\ UNCHANGED <<props, votes, deltrusts, participants, actives, sizes, cycle,
                         cyclestats, lastprops, assigned>>

decayvoice(start, chunksize) == decayvoice_with(start, chunksize, cfg_vdecayprntge)

\* a gate that forgets the last decay
decay_due_ignoring_last(now) ==
  /\ cycle.t_onperiod < now
  /\ now - cycle.t_onperiod >= cfg_decaytime

\* decayvoices at the time now
decay_due(now) ==
  /\ cycle.t_onperiod < now
  /\ now - cycle.t_onperiod >= cfg_decaytime
  /\ now - cycle.t_voicedecay >= cfg_propdecaysec

decayvoices(now) ==
  IF decay_due(now)
    THEN IF decayvoice_err(cfg_vdecayprntge) # "" THEN Reject(decayvoice_err(cfg_vdecayprntge))
         ELSE /\ cycle' = [cycle EXCEPT !.exists = TRUE, !.t_voicedecay = now]
              /\ decay_chunk(0, cfg_batchsize, cfg_vdecayprntge)
              /\ err' = ""
              /\ UNCHANGED <<props, votes, deltrusts, participants, actives, sizes,
                             cyclestats, lastprops, assigned>>
    ELSE /\ cycle' = [cycle EXCEPT !.exists = TRUE]
         /\ err' = ""
         /\ sent' = <<>>
         /\ UNCHANGED <<props, votes, voice, deltrusts, participants, actives, sizes,
                        cyclestats, lastprops, assigned>>

(***************************************************************************)
(* changetrust -> recover_voice, erase_voice                               *)
(***************************************************************************)
erase_voice_err(user) ==
  FirstError(<<
    check(user \in DOMAIN voice[alliance_type], "cannot pass end iterator to erase"),
    size_change_err(sizes, voice_size, -1),
    IF user \in actives THEN size_change_err(sizes, user_active_size, -1) ELSE "">>)

erase_voice(user) ==
  LET s1 == size_change(sizes, voice_size, -1)
  IN /\ voice' = [s \in DOMAIN voice |-> Del(voice[s], user)]
     /\ actives' = actives \ {user}
     /\ sizes' = IF user \in actives THEN size_change(s1, user_active_size, -1) ELSE s1
     /\ UNCHANGED cycle

recover_voice(account) ==
  LET voice_amount == IF account \in DOMAIN Rank THEN calculate_decay(Rank[account]) ELSE 0
      s1 == IF account \in DOMAIN voice[self_scope] THEN sizes
            ELSE size_change(sizes, voice_size, 1)
  IN /\ voice' = set_voice(account, voice_amount)
     /\ sizes' = size_change(s1, cycle_vote_power_size, voice_amount)
     /\ cycle' = IF account \in DOMAIN Rank THEN [cycle EXCEPT !.exists = TRUE] ELSE cycle
     /\ UNCHANGED actives

changetrust(user, trusted) ==
  IF user \notin DOMAIN voice[self_scope] /\ trusted
    THEN /\ recover_voice(user)
         /\ err' = ""
         /\ sent' = <<>>
         /\ UNCHANGED <<props, votes, deltrusts, participants, cyclestats, lastprops,
                        assigned>>
  ELSE IF user \in DOMAIN voice[self_scope] /\ ~trusted
    THEN IF erase_voice_err(user) # "" THEN Reject(erase_voice_err(user))
         ELSE /\ erase_voice(user)
              /\ err' = ""
              /\ sent' = <<>>
              /\ UNCHANGED <<props, votes, deltrusts, participants, cyclestats, lastprops,
                             assigned>>
  ELSE /\ err' = ""
       /\ sent' = <<>>
       /\ UNCHANGED <<state, assigned>>

(***************************************************************************)
(* Deferred transactions.  A handler schedules the transactions it sends;  *)
(* a scheduled transaction runs at some later step and is gone, whether it *)
(* is accepted or aborts.  But for the sends of onperiod, a send whose     *)
(* sender id is still scheduled is not told apart from one with a fresh    *)
(* id.  A scheduled transaction need not run: where a specification does   *)
(* not follow the transactions of a tick, they stay out of deferred.       *)
(***************************************************************************)
Scheduled(actions) == {a \in Range(actions) : a.action = "deferred"}

\* a handler called directly
Call(A) == A /\ deferred' = deferred \cup Scheduled(sent') /\ UNCHANGED <<fn, pool>>

run_tx(tx) ==
  IF tx.name = "mimicvote"
    THEN mimicvote(tx.delegatee, tx.delegator, tx.scope, tx.proposal_id,
                   tx.percentage_used, tx.option, tx.chunksize)
  ELSE IF tx.name = "evalproposal" THEN evalproposal(tx.proposal_id, tx.prop_cycle)
  ELSE IF tx.name = "erasepartpts" THEN erasepartpts(tx.active_proposals)
  ELSE IF tx.name = "updatevoice" THEN updatevoice(tx.start)
  ELSE IF tx.name = "decayvoice" THEN decayvoice(tx.start, tx.chunksize)
  ELSE voteonbehalf(tx.voter, tx.id, tx.amount, tx.option)

\* a scheduled transaction runs
run_deferred ==
  \E t \in deferred :
    /\ run_tx(t.tx)
    /\ deferred' = (deferred \ {t}) \cup Scheduled(sent')
    /\ UNCHANGED pool
    /\ UNCHANGED fn

(***************************************************************************)
(* SpecMimic: one campaign proposal is created, staked and promoted, three *)
(* citizens delegate and undelegate in its scope and vote on it, and the   *)
(* scheduled mimicvote and voteonbehalf transactions run.                  *)
(***************************************************************************)
MimicVoters == {"alice", "bob", "frank"}
MimicEdges == { <<"bob", "alice">>, <<"frank", "bob">>, <<"frank", "alice">> }

NextMimic ==
  \/ Len(assigned) < MaxProps /\ Call(create("carol", "alice", 40, bank_campaigns))
  \/ Call(stake("carol", 2, 0))
  \/ \E a \in MimicVoters : Call(addactive(a))
  \/ onperiod /\ UNCHANGED <<fn, deferred, pool>>
  \/ \E id \in PropIds, c \in 0..MaxCycle :
       /\ id \in DOMAIN props /\ props[id].stage = stage_staged /\ c <= cycle.propcycle
       /\ Call(evalproposal(id, c))
  \/ \E e \in MimicEdges : Call(delegate(e[1], e[2], self_scope))
  \/ \E e \in MimicEdges : Call(undelegate(e[1], self_scope))
  \/ \E v \in MimicVoters, id \in PropIds : Call(favour(v, id, 1))
  \/ run_deferred

SpecMimic == Init /\ [][NextMimic]_vars

(***************************************************************************)
(* Delegation round trip.                                                  *)
(***************************************************************************)
\* an accepted delegate stores the one edge and touches no other
C23_DelegateStep ==
  \A e \in MimicEdges :
    (delegate_err(e[1], e[2], self_scope) = "" /\ delegate(e[1], e[2], self_scope)) =>
      /\ deltrusts'[self_scope][e[1]] = e[2]
      /\ \A d \in DOMAIN deltrusts'[self_scope] \ {e[1]} :
           d \in DOMAIN deltrusts[self_scope]
           /\ deltrusts'[self_scope][d] = deltrusts[self_scope][d]

\* undelegate of a stored edge is accepted and removes it: what is left is
\* the table without the delegator, the table before the delegate when the
\* delegator had no edge then
C23_UndelegateStep ==
  \A a \in MimicVoters :
    (a \in DOMAIN deltrusts[self_scope] /\ undelegate(a, self_scope)) =>
      /\ err' = ""
      /\ a \notin DOMAIN deltrusts'[self_scope]
      /\ \A d \in DOMAIN deltrusts[self_scope] \ {a} :
           d \in DOMAIN deltrusts'[self_scope]
           /\ deltrusts'[self_scope][d] = deltrusts[self_scope][d]
      /\ DOMAIN deltrusts'[self_scope] \subseteq DOMAIN deltrusts[self_scope]

\* a direct vote schedules a mimicvote only from a stored edge to the voter,
\* and a mimicvote schedules votes on behalf only of accounts whose edge
\* targets its delegatee
C23_FanOutStep ==
  \A a \in Scheduled(sent') :
    /\ a.tx.name = "mimicvote" =>
         a.tx.delegator \in DelegatorsOf(a.tx.scope, a.tx.delegatee)
    /\ a.tx.name = "voteonbehalf" =>
         \E t \in deferred :
           /\ t.tx.name = "mimicvote"
           /\ a.tx.voter \in DelegatorsOf(t.tx.scope, t.tx.delegatee)

C24_BehalfStep ==
  \A t \in deferred :
    ( /\ t.tx.name = "voteonbehalf"
      /\ t \notin deferred'
      /\ err' = ""
      /\ \E r \in votes' \ votes : r.account = t.tx.voter )
    => \A a \in Scheduled(sent') : a.tx.name # "mimicvote"

(***************************************************************************)
(* C24.  Vote mimicry is one hop only: a vote cast on behalf of an account *)
(* schedules no mimicry for the delegators of that account, so with edges  *)
(* C -> B and B -> A a direct vote of A yields a vote for B and none for   *)
(* C.                                                                      *)
(***************************************************************************)
C24_MimicryOneHop == [][C24_BehalfStep]_vars

(***************************************************************************)
(* SpecChain: accounts get a voice row, with or without activity, and then *)
(* voice refresh and voice decay chains run one after the other, each to   *)
(* its end with nothing in between.  call holds the chain that was started *)
(* with the voice table it found, ret the cursor and the accounts of each  *)
(* of its steps so far.                                                    *)
(***************************************************************************)
MaxChunk == 3
ChainUsers == {"alice", "bob", "carol", "dave", "frank"}

chain_call(name, chunksize) ==
  [name |-> name, chunksize |-> chunksize, voice |-> voice, actives |-> actives]

chain_step(start, chunksize) ==
  [start |-> start, accounts |-> Take(VoiceFrom(start), chunksize)]

idle == deferred = {}

start_updatevoices ==
  /\ updatevoices
  /\ deferred' = deferred \cup Scheduled(sent')
  /\ UNCHANGED pool
  /\ call' = chain_call("updatevoice", cfg_batchsize)
  /\ ret' = <<chain_step(0, cfg_batchsize)>>

start_decayvoice(chunksize) ==
  /\ decayvoice(0, chunksize)
  /\ deferred' = deferred \cup Scheduled(sent')
  /\ UNCHANGED pool
  /\ call' = chain_call("decayvoice", chunksize)
  /\ ret' = <<chain_step(0, chunksize)>>

\* the scheduled step of the chain runs
run_chain ==
  \E t \in deferred :
    /\ run_tx(t.tx)
    /\ deferred' = (deferred \ {t}) \cup Scheduled(sent')
    /\ UNCHANGED pool
    /\ ret' = Append(ret, chain_step(t.tx.start, call.chunksize))
    /\ UNCHANGED call

NextChain ==
  \/ \E a \in ChainUsers : call = <<>> /\ Call(changetrust(a, TRUE))
  \/ \E a \in ChainUsers : call = <<>> /\ Call(addactive(a))
  \/ idle /\ start_updatevoices
  \/ \E c \in 1..MaxChunk : idle /\ start_decayvoice(c)
  \/ run_chain

SpecChain == Init /\ [][NextChain]_vars

(***************************************************************************)
(* The steps of a chain that runs alone.                                   *)
(***************************************************************************)
\* the accounts of the voice table the chain found, in key order
ChainAccountsAtStart == SortedAccounts(DOMAIN call.voice[self_scope])

CeilDiv(n, b) == (n + b - 1) \div b

\* step i took the i-th run of chunksize accounts of the table
C25_StepChunk(i) ==
  ret[i].accounts = SubSeq(ChainAccountsAtStart, (i - 1) * call.chunksize + 1,
                           Min(i * call.chunksize, Len(ChainAccountsAtStart)))

\* the balances a finished chain leaves: every row decayed once, or every
\* row at its rank and the counters at the active accounts and their ranks
C25_Effect ==
  IF call.name = "decayvoice"
    THEN voice = [s \in DOMAIN call.voice |->
                    [a \in DOMAIN call.voice[s] |->
                       TruncScaled(100 - cfg_vdecayprntge, call.voice[s][a])]]
    ELSE /\ \A s \in DOMAIN voice : \A a \in DOMAIN call.voice[self_scope] :
              a \in DOMAIN voice[s] /\ voice[s][a] = cs_points(a)
         /\ get_size(user_active_size)
              = Cardinality(DOMAIN call.voice[self_scope] \cap actives)
         /\ get_size(cycle_vote_power_size) = vote_power_of(ChainAccountsAtStart)

\* C25: a refresh or decay chain started at 0 on a voice table of N >= 1
\* accounts with chunk size B, with no other operation between its steps,
\* runs ceil(N/B) steps; step i processes the next min(B, remaining)
\* accounts in key order, so that every account is processed exactly once;
\* the cursors of the follow-up steps increase strictly; a follow-up is
\* scheduled exactly while accounts remain, and none at the end
C25_ChainSteps ==
  (call # <<>> /\ ChainAccountsAtStart # <<>>) =>
    LET N == Len(ChainAccountsAtStart)
        B == call.chunksize
    IN /\ Len(ret) <= CeilDiv(N, B)
       /\ \A i \in DOMAIN ret : C25_StepChunk(i)
       /\ \A i \in DOMAIN ret \ {1} : ret[i].start > ret[i - 1].start
       /\ Cardinality(deferred) = IF Len(ret) < CeilDiv(N, B) THEN 1 ELSE 0
       /\ idle => Len(ret) = CeilDiv(N, B) /\ C25_Effect

\* a refresh of five accounts in chunks of two has run its three steps
C25_Witness ==
  /\ call # <<>> /\ call.name = "updatevoice" /\ idle
  /\ Len(ChainAccountsAtStart) = 5
  /\ Len(ret) = 3 /\ Len(ret[1].accounts) = 2 /\ Len(ret[2].accounts) = 2
  /\ Len(ret[3].accounts) = 1

(***************************************************************************)
(* SpecChainOpen: accounts get a voice row, one refresh or decay chain is   *)
(* started, and between two steps of it accounts lose their voice          *)
(* (changetrust(user, false)).                                             *)
(***************************************************************************)
NextChainOpen ==
  \/ \E a \in ChainUsers : call = <<>> /\ Call(changetrust(a, TRUE))
  \/ \E a \in ChainUsers : call = <<>> /\ Call(addactive(a))
  \/ call = <<>> /\ start_updatevoices
  \/ \E c \in 1..MaxChunk : call = <<>> /\ start_decayvoice(c)
  \/ \E a \in ChainUsers : ~idle /\ Call(changetrust(a, FALSE))
  \/ run_chain

SpecChainOpen == Init /\ [][NextChainOpen]_vars

\* the accounts the steps of the chain processed
ChainProcessed == UNION {Range(ret[i].accounts) : i \in DOMAIN ret}

\* C26: a refresh or decay chain processes every account that is still in
\* the voice table, also when accounts are removed between two of its steps
\* (the account of the next cursor among them): once no step of the chain
\* is scheduled any more, every account of the table has been processed
C26_RemainingProcessed ==
  (call # <<>> /\ idle) => DOMAIN voice[self_scope] \subseteq ChainProcessed

(***************************************************************************)
(* SpecChainAbort: accounts get a voice row and one refresh or decay chain *)
(* runs alone; each step of a decay chain reads the setting vdecayprntge   *)
(* anew, as it is or raised above 100 in the meantime.                     *)
(***************************************************************************)
DecaySettings == {cfg_vdecayprntge, 101}

run_chain_reading(percentage_decay) ==
  \E t \in deferred :
    /\ IF t.tx.name = "decayvoice"
         THEN decayvoice_with(t.tx.start, t.tx.chunksize, percentage_decay)
         ELSE run_tx(t.tx)
    /\ deferred' = (deferred \ {t}) \cup Scheduled(sent')
    /\ UNCHANGED pool
    /\ ret' = Append(ret, IF err' = "" THEN chain_step(t.tx.start, call.chunksize)
                          ELSE [start |-> t.tx.start, accounts |-> <<>>])
    /\ UNCHANGED call

NextChainAbort ==
  \/ \E a \in ChainUsers : call = <<>> /\ Call(changetrust(a, TRUE))
  \/ \E a \in ChainUsers : call = <<>> /\ Call(addactive(a))
  \/ call = <<>> /\ start_updatevoices
  \/ \E c \in 1..MaxChunk : call = <<>> /\ start_decayvoice(c)
  \/ \E p \in DecaySettings : run_chain_reading(p)

SpecChainAbort == Init /\ [][NextChainAbort]_vars

\* a step of the chain ran and was rejected
C27_AbortedStep == Len(ret') > Len(ret) /\ err' # ""

\* C27: the follow-up of a chain is scheduled whether or not the chunk
\* succeeds: after a step of the chain that aborted on a failed check, a
\* step of the chain is scheduled, so the rest of the table is processed
C27_FollowUpAfterAbort == [][C27_AbortedStep => deferred' # {}]_vars

(***************************************************************************)
(* The effect of a refresh step on active and inactive accounts.           *)
(***************************************************************************)
\* a step of a refresh chain ran
C28_RefreshStep == ret' # ret /\ call'.name = "updatevoice"

\* C28: a refresh step sets the voice of every active account it processes
\* to the rank of the account in both ledgers, and leaves the balance of
\* every inactive account as it was
C28_RefreshOnlyActive ==
  [][C28_RefreshStep =>
       /\ \A a \in Range(ret'[Len(ret')].accounts) :
            is_active(a) => \A s \in DOMAIN voice' : voice'[s][a] = cs_points(a)
       /\ \A s \in DOMAIN voice : \A a \in DOMAIN voice[s] :
            ~is_active(a) => voice'[s][a] = voice[s][a]]_vars

(***************************************************************************)
(* SpecDecayTime: accounts get a voice row, the cycle ticks and            *)
(* decayvoices is called, each at a time that is not before the times the  *)
(* cycle singleton has stored, and the scheduled decay steps run.          *)
(***************************************************************************)
MaxTime == 6
Times == 0..MaxTime
DecayUsers == {"alice", "bob", "frank"}

\* the clock does not run backwards
not_before_stored(now) == now >= cycle.t_onperiod /\ now >= cycle.t_voicedecay

NextDecayTime ==
  \/ \E a \in DecayUsers : Call(changetrust(a, TRUE))
  \/ \E now \in Times : not_before_stored(now) /\ onperiod_at(now) /\ UNCHANGED <<fn, deferred, pool>>
  \/ \E now \in Times : not_before_stored(now) /\ Call(decayvoices(now))
  \/ run_deferred

SpecDecayTime == Init /\ [][NextDecayTime]_vars

\* some balance of the voice tables went down
C29_Reduced ==
  \E s \in DOMAIN voice : \E a \in DOMAIN voice[s] : voice'[s][a] < voice[s][a]

\* C29: a call of decayvoices reduces balances only at a time now with
\* now - t_onperiod >= decaytime and now - t_voicedecay >= propdecaysec,
\* and the call that starts a decay stores t_voicedecay = now; a call less
\* than propdecaysec after that one, and a call less than decaytime after
\* the cycle tick, changes no balance, schedules nothing and stores no time
C29_DecayGate ==
  [][\A now \in Times :
       (not_before_stored(now) /\ decayvoices(now)) =>
         IF now - cycle.t_onperiod >= cfg_decaytime
            /\ now - cycle.t_voicedecay >= cfg_propdecaysec
           THEN cycle'.t_voicedecay = now
           ELSE /\ ~C29_Reduced /\ voice' = voice
                /\ sent' = <<>>
                /\ cycle'.t_voicedecay = cycle.t_voicedecay]_vars

\* decayvoices has halved the first two balances after the tick and has
\* scheduled the step for the third
C29_Witness ==
  /\ cycle.propcycle = 1 /\ cycle.t_voicedecay >= cycle.t_onperiod + cfg_decaytime
  /\ DOMAIN voice[self_scope] = DecayUsers
  /\ voice[self_scope]["alice"] = 1 /\ voice[self_scope]["frank"] = 2
  /\ \E d \in Scheduled(sent) : d.tx.name = "decayvoice" /\ d.tx.start = Key("frank")

(***************************************************************************)
(* calculate_decay as a function: one evaluation for a voice, a decay      *)
(* percentage and the two times of the cycle singleton.                    *)
(***************************************************************************)
DecayVoices == {0, 1, 2, 10, 1000}
DecayPercentages == {0, 10, 50, 90, 100}

InitDecay ==
  /\ Tables
  /\ call \in [voice : DecayVoices, decay_percentage : DecayPercentages,
               t_onperiod : Times, t_voicedecay : Times]
  /\ ret = <<>>

call_calculate_decay ==
  /\ ret = <<>>
  /\ ret' = <<calculate_decay_of(call.voice, call.decay_percentage, call.t_onperiod,
                                 call.t_voicedecay)>>
  /\ UNCHANGED <<state, err, assigned, sent, deferred, pool, call>>

SpecDecay == InitDecay /\ [][call_calculate_decay]_vars

\* C30: calculate_decay(v) is v when t_voicedecay <= t_onperiod + decaytime,
\* and otherwise floor(v * (1 - pct/100)^n) with
\* n = floor((t_voicedecay - (t_onperiod + decaytime)) / propdecaysec) + 1
\* (1000 at 10 per cent after two elapsed intervals: n = 3, 729)
C30_DecayArithmetic ==
  ret # <<>> =>
    LET elapsed == call.t_voicedecay - (call.t_onperiod + cfg_decaytime)
        n == (elapsed \div cfg_propdecaysec) + 1
    IN ret[1] = IF elapsed <= 0 THEN call.voice
                ELSE (call.voice * Pow(100 - call.decay_percentage, n)) \div Pow(100, n)

(***************************************************************************)
(* SpecRecover: as SpecDecayTime, with accounts that also gain their voice *)
(* by addactive; ret holds the times of the decay rounds that decayvoices  *)
(* has started since the last cycle tick.                                  *)
(***************************************************************************)
tick_at(now) ==
  /\ onperiod_at(now)
  /\ UNCHANGED <<deferred, pool>>
  /\ ret' = <<>>
  /\ UNCHANGED call

decay_at(now) ==
  /\ decayvoices(now)
  /\ deferred' = deferred \cup Scheduled(sent')
  /\ UNCHANGED pool
  /\ ret' = IF decay_due(now) THEN Append(ret, now) ELSE ret
  /\ UNCHANGED call

NextRecover ==
  \/ \E a \in DecayUsers : Call(changetrust(a, TRUE))
  \/ \E a \in DecayUsers : Call(addactive(a))
  \/ \E now \in Times : not_before_stored(now) /\ tick_at(now)
  \/ \E now \in Times : not_before_stored(now) /\ decay_at(now)
  \/ run_deferred

SpecRecover == Init /\ [][NextRecover]_vars

\* a balance after so many decay rounds
RECURSIVE AfterRounds(_, _)
AfterRounds(v, rounds) ==
  IF rounds = 0 THEN v
  ELSE AfterRounds(TruncScaled(100 - cfg_vdecayprntge, v), rounds - 1)

\* C31: after a cycle tick, the voice an account gets when it enters the
\* voice tables (addactive, changetrust(user, true)) is the voice of its
\* rank after the decay rounds decayvoices has applied since the tick
C31_RecoveredAsDecayed ==
  [][\A a \in DecayUsers :
       (cycle.propcycle >= 1 /\ a \notin DOMAIN voice[self_scope]
        /\ a \in DOMAIN voice'[self_scope]) =>
         voice'[self_scope][a] = AfterRounds(Rank[a], Len(ret))]_vars

(***************************************************************************)
(* SpecTick: proposals are created, staked and voted on, the cycle ticks,  *)
(* and the transactions the ticks schedule run, in any order.              *)
(***************************************************************************)
MaxTicks == 3
MaxTickProps == 2
TickProps == 1..MaxTickProps

NextTick ==
  \/ Len(assigned) < MaxTickProps /\ Call(create("carol", "alice", 40, bank_campaigns))
  \/ \E id \in TickProps : Call(stake("carol", 2, id))
  \/ Call(addactive("alice"))
  \/ \E id \in TickProps : Call(favour("alice", id, 1))
  \/ cycle.propcycle < MaxTicks /\ Call(onperiod_tick(cycle.t_onperiod))
  \/ run_deferred

SpecTick == Init /\ [][NextTick]_vars

\* the evaluations of a proposal among the actions of a step
C32_Evaluations(actions, id) ==
  {i \in DOMAIN actions : /\ actions[i].action = "deferred"
                          /\ actions[i].tx.name = "evalproposal"
                          /\ actions[i].tx.proposal_id = id}

\* an accepted tick
C32_TickStep ==
  cycle'.propcycle # cycle.propcycle =>
    /\ cycle'.propcycle = cycle.propcycle + 1
    /\ props' = props
    /\ \A id \in TickProps :
         /\ Cardinality(C32_Evaluations(sent', id))
              = IF id \in DOMAIN props /\ props[id].stage \in {stage_staged, stage_active}
                  THEN 1 ELSE 0
         /\ \A i \in C32_Evaluations(sent', id) : sent'[i].tx.prop_cycle = cycle.propcycle
    /\ cycle'.propcycle \notin DOMAIN cyclestats
    /\ DOMAIN cyclestats' = DOMAIN cyclestats \cup {cycle'.propcycle}

\* a promotion leaves no evaluation of the proposal scheduled
C32_PromotionStep ==
  \A id \in DOMAIN props :
    (props[id].stage = stage_staged /\ id \in DOMAIN props'
     /\ props'[id].stage = stage_active) =>
      \A d \in deferred' : ~(d.tx.name = "evalproposal" /\ d.tx.proposal_id = id)

\* C32: a tick schedules exactly one evaluation, tagged with the cycle
\* before the tick, for every proposal that is Staged or Active and none
\* for a proposal that is Done, advances the cycle by one and creates the
\* one statistics row of the new cycle; a proposal promoted after a tick
\* has no evaluation scheduled until the next tick
C32_TickSchedules == [][C32_TickStep /\ C32_PromotionStep]_vars

\* the third tick found one proposal Active and one Done and scheduled the
\* one evaluation
C32_Witness ==
  /\ cycle.propcycle = 3
  /\ DOMAIN props = TickProps
  /\ \E id \in TickProps : props[id].stage = stage_active
                           /\ Cardinality(C32_Evaluations(sent, id)) = 1
  /\ \E id \in TickProps : props[id].stage = stage_done
                           /\ C32_Evaluations(sent, id) = {}

(***************************************************************************)
(* SpecAuth: every action is sent by an actor, with the authority of that  *)
(* account alone; scheduled transactions run with the authority of the     *)
(* contract.  call holds the actor and the name of the last action, and    *)
(* the account the action is on behalf of: the creator, staker or voter,   *)
(* the contract for the actions of the cycle.                              *)
(***************************************************************************)
AuthActors == {"alice", "carol", "dave", self_scope}

\* require_auth(account) in a transaction of the actor
require_auth(actor, account, A) ==
  IF actor = account THEN A ELSE Reject("missing required authority")

sent_by(actor, name, account, A) ==
  /\ A
  /\ deferred' = deferred \cup Scheduled(sent')
  /\ UNCHANGED pool
  /\ call' = [actor |-> actor, name |-> name, account |-> account]
  /\ UNCHANGED ret

\* cancel looks the proposal up and asks for the authority of its creator
cancel_by(actor, id) ==
  IF id \notin DOMAIN props THEN sent_by(actor, "cancel", "carol", cancel(id))
  ELSE sent_by(actor, "cancel", props[id].creator,
               require_auth(actor, props[id].creator, cancel(id)))

NextAuth ==
  \/ \E actor \in AuthActors :
       /\ Len(assigned) < MaxProps
       /\ sent_by(actor, "create", "carol",
                  require_auth(actor, "carol", create("carol", "alice", 40, bank_campaigns)))
  \/ \E actor \in AuthActors : sent_by(actor, "transfer", actor, stake(actor, 2, 1))
  \/ \E actor \in AuthActors, id \in PropIds : cancel_by(actor, id)
  \/ \E actor \in AuthActors :
       sent_by(actor, "addactive", self_scope,
               require_auth(actor, self_scope, addactive("alice")))
  \/ \E actor \in AuthActors :
       /\ cycle.propcycle < MaxTicks
       /\ sent_by(actor, "onperiod", self_scope,
                  require_auth(actor, self_scope, onperiod_tick(cycle.t_onperiod)))
  \/ \E actor \in AuthActors, id \in PropIds :
       sent_by(actor, "favour", "alice", require_auth(actor, "alice", favour("alice", id, 1)))
  \/ \E actor \in AuthActors, n \in 0..MaxProps :
       sent_by(actor, "erasepartpts", self_scope, erasepartpts(n))
  \/ \E t \in deferred :
       /\ run_tx(t.tx)
       /\ deferred' = (deferred \ {t}) \cup Scheduled(sent')
       /\ UNCHANGED pool
       /\ call' = [actor |-> self_scope, name |-> t.tx.name, account |-> self_scope]
       /\ UNCHANGED ret

SpecAuth == Init /\ [][NextAuth]_vars

\* C33: only the authorised principal changes governance state: a step that
\* changes a table or sends an action is by the account the action is on
\* behalf of, the contract itself for the actions of the cycle, the sweep
\* of the participants (erasepartpts) among them
C33_OnlyAuthorised ==
  [][(state' # state \/ sent' # <<>>) => call'.actor = call'.account]_vars


(***************************************************************************)
(* C34.  The tallies of a proposal never decrease while its status is      *)
(* Open; the only decrease there is, is of favour by a favour->against     *)
(* reversal, accepted only in status Evaluate; and while the status is     *)
(* Evaluate the favour tally never increases.                              *)
(***************************************************************************)
C34_Reversal(id) ==
  \E old \in votes : \E r \in votes' :
    /\ old.proposal_id = id /\ r.proposal_id = id
    /\ old.account = r.account
    /\ old.favour /\ ~r.favour
    /\ old \notin votes'
    /\ props'[id].favour = props[id].favour - old.amount
    /\ props'[id].against = props[id].against + r.amount

C34_TallyStep(id) ==
  LET p == props[id]
      q == props'[id]
  IN  /\ p.status = status_open =>
           q.favour >= p.favour /\ q.against >= p.against
      /\ q.against >= p.against
      /\ q.favour < p.favour =>
           p.status = status_evaluate /\ C34_Reversal(id)
      /\ p.status = status_evaluate => q.favour <= p.favour

\* C34: on every step the tallies of every proposal move as C34_TallyStep allows
C34_TalliesMonotone ==
  [][\A id \in DOMAIN props \cap DOMAIN props' : C34_TallyStep(id)]_vars

C34_Witness ==
  /\ err = ""
  /\ \E id \in DOMAIN props :
       /\ props[id].status = status_evaluate
       /\ props[id].against > props[id].favour
       /\ props[id].total = props[id].favour + props[id].against


(***************************************************************************)
(* C35.  The active-proposal counter prop_active_size equals the number of *)
(* proposals in stage Active with status Open: incremented once at the     *)
(* promotion, decremented once when the proposal leaves Active/Open and    *)
(* not again on the later evaluations in status Evaluate.                  *)
(***************************************************************************)
C35_ActiveOpen == {id \in DOMAIN props : ActiveOpen(props[id])}

\* C35: prop_active_size is the number of proposals in stage Active, status Open
C35_ActiveCounter == get_size(prop_active_size) = Cardinality(C35_ActiveOpen)


(***************************************************************************)
(* C36.  Stake is conserved: the sum of staked over all proposals is the   *)
(* stake deposited less the stake refunded and burned, so every step       *)
(* changes the sum by exactly what it deposits in, refunds from and burns  *)
(* from the bank; this also for stake deposited on a proposal in status    *)
(* Evaluate or in stage Done.                                              *)
(***************************************************************************)
RECURSIVE C36_Staked(_, _)
C36_Staked(P, ids) ==
  IF ids = {} THEN 0
  ELSE LET id == CHOOSE id \in ids : TRUE
       IN P[id].staked + C36_Staked(P, ids \ {id})

RECURSIVE C36_BankFlow(_)
C36_BankFlow(actions) ==
  IF actions = <<>> THEN 0
  ELSE LET a == Head(actions)
           flow == IF a.action = "transfer" /\ a.to = contracts_bank THEN a.quantity
                   ELSE IF a.action = "transfer" /\ a.from = contracts_bank THEN 0 - a.quantity
                   ELSE IF a.action = "burn" THEN 0 - a.quantity
                   ELSE 0
       IN flow + C36_BankFlow(Tail(actions))

\* C36: every step changes the sum of staked by what it moves into and out of the bank
C36_StakeConserved ==
  [][C36_Staked(props', DOMAIN props') - C36_Staked(props, DOMAIN props)
       = C36_BankFlow(sent')]_vars


(***************************************************************************)
(* C37.  For every existing proposal, favour is the sum of the amounts of  *)
(* its vote rows in favour, against the sum of the amounts of its vote     *)
(* rows against, and total = favour + against; across votes, reversals,    *)
(* cancellation and the creation of later proposals.                       *)
(***************************************************************************)
MaxCreated == 2

NextRows ==
  \/ /\ Len(assigned) < MaxCreated
     /\ create("carol", "alice", 40, bank_campaigns)
     /\ UNCHANGED <<fn, deferred, pool>>
  \/ stake("carol", 2, 0) /\ UNCHANGED <<fn, deferred, pool>>
  \/ \E id \in PropIds : cancel(id) /\ UNCHANGED <<fn, deferred, pool>>
  \/ \E a \in {"alice", "bob"} : addactive(a) /\ UNCHANGED <<fn, deferred, pool>>
  \/ \E v \in {"alice", "bob"}, id \in PropIds, a \in VoteAmounts :
       favour(v, id, a) /\ UNCHANGED <<fn, deferred, pool>>
  \/ \E v \in {"alice", "bob"}, id \in PropIds, a \in VoteAmounts :
       against(v, id, a) /\ UNCHANGED <<fn, deferred, pool>>
  \/ \E v \in {"alice", "bob"}, id \in PropIds : neutral(v, id) /\ UNCHANGED <<fn, deferred, pool>>
  \/ onperiod /\ UNCHANGED <<fn, deferred, pool>>
  \/ \E id \in PropIds, c \in 0..MaxCycle :
       c <= cycle.propcycle /\ evalproposal(id, c) /\ UNCHANGED <<fn, deferred, pool>>

SpecRows == Init /\ [][NextRows]_vars

RECURSIVE C37_Amounts(_)
C37_Amounts(rows) ==
  IF rows = {} THEN 0
  ELSE LET r == CHOOSE r \in rows : TRUE
       IN r.amount + C37_Amounts(rows \ {r})

\* C37: the tallies of every existing proposal are the sums over its vote rows
C37_TalliesAreRowSums ==
  \A id \in DOMAIN props :
    LET rows == {r \in votes : r.proposal_id = id}
    IN /\ props[id].favour = C37_Amounts({r \in rows : r.favour})
       /\ props[id].against = C37_Amounts({r \in rows : ~r.favour})
       /\ props[id].total = props[id].favour + props[id].against


(***************************************************************************)
(* C38.  An account with an outgoing delegation edge in the voice scope of *)
(* a proposal's fund cannot vote on it directly: its favour, against and   *)
(* neutral are rejected, and rejected actions change nothing; a vote cast  *)
(* on its behalf is not refused for the edge; and an account without the   *)
(* edge, so after undelegate, votes directly exactly as on its behalf.     *)
(***************************************************************************)
delegated_msg == "voice is delegated, user can not vote by itself"

C38_HasEdge(v, id) == v \in DOMAIN deltrusts[voice_scope(props[id].fund)]

C38_DirectRefused(v, id, a) ==
  /\ favour_err(v, id, a) # ""
  /\ against_err(v, id, a) # ""
  /\ neutral_err(v, id) # ""

C38_OnBehalfAccepted(v, id, a) ==
  /\ favour_err(v, id, a) = delegated_msg => voteonbehalf_err(v, id, a, trust) = ""
  /\ against_err(v, id, a) = delegated_msg => voteonbehalf_err(v, id, a, distrust) = ""
  /\ neutral_err(v, id) = delegated_msg => voteonbehalf_err(v, id, 0, abstain) = ""

C38_DirectAsOnBehalf(v, id, a) ==
  /\ favour_err(v, id, a) = voteonbehalf_err(v, id, a, trust)
  /\ against_err(v, id, a) = voteonbehalf_err(v, id, a, distrust)
  /\ neutral_err(v, id) = voteonbehalf_err(v, id, 0, abstain)

C38_Votes ==
  \A v \in Voters, id \in DOMAIN props, a \in VoteAmounts :
    IF C38_HasEdge(v, id)
      THEN C38_DirectRefused(v, id, a) /\ C38_OnBehalfAccepted(v, id, a)
      ELSE C38_DirectAsOnBehalf(v, id, a)

\* C38: a delegated account cannot vote directly, others vote on its behalf
C38_DelegatedCannotVote == []C38_Votes /\ [][RejectedUnchanged]_vars

C38_Witness ==
  /\ err = delegated_msg
  /\ \E id \in DOMAIN props :
       /\ ActiveOpen(props[id])
       /\ C38_HasEdge("bob", id)
       /\ VoteRows(votes, id, "bob") = {}
       /\ voteonbehalf_err("bob", id, 1, trust) = ""


(***************************************************************************)
(* SpecRefresh: one refresh chain of the voice table with the first votes  *)
(* of accounts between its steps.  alice, bob and frank get a voice row by *)
(* changetrust, alice also by addactive, which makes her active; the       *)
(* others are active once they have voted.  Every timestamp of actives is  *)
(* after the cutoff, no cycle passing.  call and ret log the chain as in   *)
(* SpecChain.                                                              *)
(***************************************************************************)
RefreshUsers == {"alice", "bob", "frank"}

NextRefresh ==
  \/ Len(assigned) < MaxProps /\ Call(create("carol", "alice", 40, bank_campaigns))
  \/ Call(stake("carol", 2, 0))
  \/ onperiod /\ UNCHANGED <<fn, deferred, pool>>
  \/ \E id \in PropIds, c \in 0..MaxCycle :
       /\ id \in DOMAIN props /\ props[id].stage = stage_staged /\ c <= cycle.propcycle
       /\ Call(evalproposal(id, c))
  \/ \E a \in RefreshUsers : call = <<>> /\ Call(changetrust(a, TRUE))
  \/ call = <<>> /\ Call(addactive("alice"))
  \/ \E v \in RefreshUsers, id \in PropIds : Call(favour(v, id, 1))
  \/ idle /\ call = <<>> /\ start_updatevoices
  \/ run_chain

SpecRefresh == Init /\ [][NextRefresh]_vars

\* C39: when the refresh chain started by updatevoice(0) completes, the
\* counter user_active_size is the number of accounts of the voice table
\* that are active, also when accounts cast their first vote between two
\* steps of the chain
C39_ChainCompletes == ret' # ret /\ deferred' = {}

C39_ActiveUsers == Cardinality(DOMAIN voice[self_scope] \cap actives)

\* C39: user_active_size is right when the refresh chain completes
C39_CounterAfterChain ==
  [][C39_ChainCompletes => sizes'[user_active_size] = C39_ActiveUsers']_vars


(***************************************************************************)
(* The pool contract (seeds.pool.cpp).  pool holds its two tables:         *)
(* balances, account -> balance, and sizes with the counter of the total   *)
(* balance, kept by the size_change of the proposals contract.  The        *)
(* handlers of the pool leave the tables of the proposals contract alone.  *)
(***************************************************************************)
pool_self == "pool.seeds"
total_balance_size == "total.sz"

pool_get_size(id) == IF id \in DOMAIN pool.sizes THEN pool.sizes[id] ELSE 0

\* ontransfer: the notification of a transfer of quantity SEEDS to the
\* account to, with the account to credit as memo
ontransfer_err(to, quantity, memo) ==
  IF to # pool_self THEN ""
  ELSE FirstError(<<
         check_asset(quantity),
         check(is_account(memo), memo \o " is not an account")>>)

ontransfer(from, to, quantity, memo) ==
  LET e == ontransfer_err(to, quantity, memo)
      balance == IF memo \in DOMAIN pool.balances THEN pool.balances[memo] ELSE 0
  IN /\ err' = e
     /\ sent' = <<>>
     /\ pool' = IF e # "" \/ to # pool_self THEN pool
                ELSE [balances |-> Put(pool.balances, memo, balance + quantity),
                      sizes |-> size_change(pool.sizes, total_balance_size, quantity)]
     /\ UNCHANGED <<state, assigned>>

\* int64_t(percentage * quantity.amount) with percentage the double
\* balance / total_balance.  For total_balance <= 64 and quantity <= 16 the
\* truncated product is the integer quotient, as computed for every such
\* balance <= total_balance
payout_share(balance, total_balance, quantity) == (balance * quantity) \div total_balance

amount_to_payout(balance, total_balance, quantity) ==
  Min(balance, payout_share(balance, total_balance, quantity))

\* the rows of balances from the key start on (lower_bound), all for 0
BalancesFrom(start) ==
  SortedAccounts({a \in DOMAIN pool.balances : start = 0 \/ Key(a) >= start})

\* the rows one step takes: current grows by 8 a row up to chunksize
payout_rows(chunksize) == (chunksize + 7) \div 8

RECURSIVE payout_transfers(_, _, _)
payout_transfers(chunk, total_balance, quantity) ==
  IF chunk = <<>> THEN <<>>
  ELSE <<Transfer(pool_self, Head(chunk),
                  amount_to_payout(pool.balances[Head(chunk)], total_balance, quantity))>>
       \o payout_transfers(Tail(chunk), total_balance, quantity)

RECURSIVE payout_sum(_)
payout_sum(transfers) ==
  IF transfers = <<>> THEN 0 ELSE Head(transfers).quantity + payout_sum(Tail(transfers))

payout_tx(quantity, start, chunksize, accumulated_balance) ==
  [name |-> "payout", quantity |-> quantity, start |-> start, chunksize |-> chunksize,
   accumulated_balance |-> accumulated_balance]

payout_balances(chunk, total_balance, quantity) ==
  LET paid(a) == amount_to_payout(pool.balances[a], total_balance, quantity)
      erased == {a \in Range(chunk) : pool.balances[a] = paid(a)}
  IN [a \in DOMAIN pool.balances \ erased |->
        IF a \in Range(chunk) THEN pool.balances[a] - paid(a) ELSE pool.balances[a]]

payout(quantity, start, chunksize, accumulated_balance) ==
  LET rows == BalancesFrom(start)
      chunk == Take(rows, payout_rows(chunksize))
      rest == Drop(rows, payout_rows(chunksize))
      total_balance == pool_get_size(total_balance_size)
      transfers == payout_transfers(chunk, total_balance, quantity)
      accumulated == accumulated_balance + payout_sum(transfers)
      e == IF rest = <<>>
             THEN size_change_err(pool.sizes, total_balance_size, 0 - accumulated)
             ELSE ""
  IN IF e # "" THEN Reject(e) /\ UNCHANGED pool
     ELSE /\ pool' = [balances |-> payout_balances(chunk, total_balance, quantity),
                      sizes |-> IF rest = <<>>
                                  THEN size_change(pool.sizes, total_balance_size,
                                                   0 - accumulated)
                                  ELSE pool.sizes]
          /\ err' = ""
          /\ sent' = transfers \o
                     next_execution(rest, payout_tx(quantity,
                                                    IF rest = <<>> THEN 0 ELSE Key(rest[1]),
                                                    chunksize, accumulated))
          /\ UNCHANGED <<state, assigned>>

payouts(quantity) == payout(quantity, 0, cfg_batchsize, 0)

(***************************************************************************)
(* SpecPool: deposits and payout chains of the pool contract, one chain at *)
(* a time and deposits also between its steps.  call holds the quantity of *)
(* the chain, ret the transfers it has sent so far.                        *)
(***************************************************************************)
MaxPoolTotal == 16
PoolAccounts == {"alice", "bob"}
PoolDeposits == {4, 8}
PoolQuantities == {4, 8}

pool_transfers(actions) == SelectSeq(actions, LAMBDA a : a.action = "transfer")

deposit_to_pool ==
  \E to \in {pool_self, "alice"}, q \in PoolDeposits, memo \in PoolAccounts \cup {"nobody"} :
    /\ pool_get_size(total_balance_size) + q <= MaxPoolTotal
    /\ ontransfer("dave", to, q, memo)
    /\ UNCHANGED <<deferred, fn>>

start_payouts ==
  \E q \in PoolQuantities :
    /\ idle
    /\ payouts(q)
    /\ deferred' = deferred \cup Scheduled(sent')
    /\ call' = [quantity |-> q]
    /\ ret' = pool_transfers(sent')

run_payout ==
  \E t \in deferred :
    /\ payout(t.tx.quantity, t.tx.start, t.tx.chunksize, t.tx.accumulated_balance)
    /\ deferred' = (deferred \ {t}) \cup Scheduled(sent')
    /\ ret' = ret \o pool_transfers(sent')
    /\ UNCHANGED call

NextPool == deposit_to_pool \/ start_payouts \/ run_payout

SpecPool == Init /\ [][NextPool]_vars

\* a row of balances exists only with a positive total: payout never
\* divides by zero
PoolTotalPositive ==
  pool.balances # <<>> => pool_get_size(total_balance_size) > 0

RECURSIVE C40_BalanceSum(_, _)
C40_BalanceSum(B, accounts) ==
  IF accounts = {} THEN 0
  ELSE LET a == CHOOSE a \in accounts : TRUE
       IN B[a] + C40_BalanceSum(B, accounts \ {a})

\* C40: one chain of payouts(quantity) pays each account at most its pool
\* balance and at most quantity in total over all its steps, also with
\* deposits to accounts not yet processed between two steps; and when the
\* chain finishes, the counter of the total balance is the sum of the
\* balances left
C40_WithinBalance ==
  ret' # ret =>
    \A i \in DOMAIN sent' :
      sent'[i].action = "transfer" => sent'[i].quantity <= pool.balances[sent'[i].to]

C40_CounterAtEnd ==
  (ret' # ret \/ call' # call) /\ deferred' = {} =>
    pool'.sizes[total_balance_size] = C40_BalanceSum(pool'.balances, DOMAIN pool'.balances)

C40_WithinQuantity == call # <<>> => payout_sum(ret) <= call.quantity

\* C40: a payout chain pays within the balances and the quantity and leaves the counter right
C40_PayoutChain ==
  /\ []C40_WithinQuantity
  /\ [][C40_WithinBalance /\ C40_CounterAtEnd]_vars

====
